---- MODULE Spec2Model ----
(***************************************************************************)
(* Internal service-communication layer of nodejslib: the service registry *)
(* (lib/serviceRegistry.js) and the request dispatcher, an axios instance  *)
(* with a request and a response interceptor (lib/axiosClient.js).         *)
(*                                                                         *)
(* JavaScript values are modelled as tagged records so that the code's     *)
(* truthiness tests (!x, if (x)) are computed the way JavaScript computes  *)
(* them: undefined, null, "" and 0 are falsy, every object and array is    *)
(* truthy.  An object is a record of its own properties; a property the    *)
(* object does not have reads as undefined.                                *)
(***************************************************************************)
EXTENDS Integers, Sequences, FiniteSets, TLC

\* ------------------------------------------------------------------ bounds
\* longest service list held by the durable configuration document
MaxServices == 2
\* number of physical network calls after which no new dispatch is started
MaxCalls == 2
\* messages published to the stream in one behaviour
MaxMsgs == 2

\* clients connect() creates over a client that is still connecting
MaxOrphans == 2

\* ------------------------------------------------------- JavaScript values
Undefined == [t |-> "undefined"]
Null == [t |-> "null"]
Str(s) == [t |-> "string", v |-> s]
Num(n) == [t |-> "number", v |-> n]
Bool(b) == [t |-> "boolean", v |-> b]
Arr(seq) == [t |-> "array", v |-> seq]
Obj(rec) == [t |-> "object", v |-> rec]
\* an ObjectId of the database driver, by its hexadecimal text
ObjectId(hex) == [t |-> "objectid", v |-> hex]

\* ToBoolean of a value
Truthy(x) ==
    CASE x.t = "undefined" -> FALSE
      [] x.t = "null" -> FALSE
      [] x.t = "string" -> x.v # ""
      [] x.t = "number" -> x.v # 0
      [] x.t = "boolean" -> x.v
      [] OTHER -> TRUE

\* x === undefined || x === null: a property access on x throws TypeError
Nullish(x) == x.t \in {"undefined", "null"}

\* o.k for a non-nullish o
Get(o, k) ==
    CASE o.t = "object" -> IF k \in DOMAIN o.v THEN o.v[k] ELSE Undefined
      [] o.t = "array" /\ k = "length" -> Num(Len(o.v))
      [] o.t = "string" /\ k = "length" -> Num(Len(o.v))
      [] OTHER -> Undefined

\* { ...o, k: x }
Spread(o, k, x) ==
    Obj([f \in (DOMAIN o.v) \cup {k} |-> IF f = k THEN x ELSE o.v[f]])

\* `${x}` for the strings and numbers the templates are applied to
TemplateText(x) ==
    CASE x.t = "string" -> x.v
      [] x.t = "number" -> ToString(x.v)
      [] x.t = "objectid" -> x.v
      [] OTHER -> x.t

\* ------------------------------------------------------ constants.js
WEBHOOK_SOURCE_TYPE == "webhook"
HDR_CONTENT_TYPE == "Content-Type"
HDR_INTERNAL_REQUEST == "X-Internal-Request"
HDR_SOURCE_TYPE == "X-Source-Type"
HDR_USER_AGENT == "User-Agent"
HDR_USER_COMPANY == "X-User-Company"
HDR_USER_NAME == "X-User-Name"
HDR_USER_ROLES == "X-User-Roles"

\* ------------------------------------------------- the durable document
\* Service descriptors the configuration document may list.  serviceName is
\* the unique key of a descriptor, so a list never names a service twice.
\* There is a complete descriptor (in two versions, for reloads that change
\* its address and token), one whose port is 0 and one without a host.
Descriptors ==
    { Obj([serviceName |-> Str("billing"), host |-> Str("10.0.0.5"),
           port |-> Num(8080), token |-> Str("abc")]),
      Obj([serviceName |-> Str("billing"), host |-> Str("10.0.0.9"),
           port |-> Num(9090), token |-> Str("xyz")]),
      Obj([serviceName |-> Str("mail"), host |-> Str("10.0.0.7"),
           port |-> Num(0), token |-> Str("mno")]),
      Obj([serviceName |-> Str("audit"), port |-> Num(9000),
           token |-> Str("pqr")]) }

UniqueNames(seq) ==
    \A i, j \in 1..Len(seq) :
        i # j => Get(seq[i], "serviceName") # Get(seq[j], "serviceName")

ServiceLists ==
    { seq \in UNION { [1..n -> Descriptors] : n \in 1..MaxServices } :
        UniqueNames(seq) }

\* What findOne({_id: 'service_configurations'}) can give: a rejection (the
\* source is unreachable), null (no such document), a document without a
\* services property, with an empty list, with a well-formed list, or a
\* malformed one (services is not a list, or a list holding a null).
FindOneResults ==
    { [threw |-> TRUE, doc |-> Undefined],
      [threw |-> FALSE, doc |-> Null],
      [threw |-> FALSE, doc |-> Obj([_id |-> Str("service_configurations")])],
      [threw |-> FALSE, doc |-> Obj([services |-> Arr(<<>>)])],
      [threw |-> FALSE, doc |-> Obj([services |-> Str("billing")])],
      [threw |-> FALSE, doc |-> Obj([services |-> Arr(<<Null>>)])] }
    \cup { [threw |-> FALSE, doc |-> Obj([services |-> Arr(seq)])] :
             seq \in ServiceLists }

\* ------------------------------------------------------------------ state
VARIABLES
    services,   \* serviceRegistry.js: the module-level snapshot
    loaders,    \* the loadConfig calls: position, argument, outcome
    latest,     \* the loadConfig call that ended last: what findOne gave it
    reader,     \* a caller of servicesConfig and the value it obtained
    disp,       \* the request going through internalApiClient
    netCalls,   \* physical calls handed to the network so far
    client,     \* the Redis service: the module-level ioredis client
    stream,     \* Redis: the entries of each stream and its last id
    groups,     \* Redis: the consumer groups, their position and pending
    reading,    \* the readFromStreamGroup call that is under way
    call,       \* the call of a stream function that ended last
    handed,     \* ids readFromStreamGroup has returned, for each group
    store,      \* Redis: the text held under each key
    proj,       \* the call of the projector that ended last
    isClosing,  \* the Redis service: the module-level flag of close()
    quit,       \* the close() call waiting for quit: where its client is
    unreferenced, \* ioredis clients created that the module no longer holds
    auth        \* the request authClient handled last and what it did

httpVars == <<services, loaders, latest, reader, disp, netCalls>>
connVars == <<isClosing, quit, unreferenced>>
redisVars == <<client, stream, groups, reading, call, handed, store, proj,
               connVars>>
vars == <<httpVars, redisVars, auth>>

\* the tasks that call loadConfig
Loaders == {"boot", "refresh"}

\* the names loadConfig is called with
LoadArgs == {Undefined, Str("billing"), Str("ghost")}

\* ------------------------------------------------------ serviceRegistry.js
\* servicesConfig: () => services
servicesConfig == services

\* a plausible slip: && where the code has ||
MapServiceBothMissing(service) ==
    IF ~Truthy(Get(service, "host")) /\ ~Truthy(Get(service, "port"))
    THEN Spread(service, "serviceUrl", Null)
    ELSE Spread(service, "serviceUrl",
                Str("http://" \o TemplateText(Get(service, "host"))
                    \o ":" \o TemplateText(Get(service, "port"))))

\* the callback of configDoc.services.map: adds serviceUrl to one service
MapService(service) ==
    IF ~Truthy(Get(service, "host")) \/ ~Truthy(Get(service, "port"))
    THEN Spread(service, "serviceUrl", Null)
    ELSE Spread(service, "serviceUrl",
                Str("http://" \o TemplateText(Get(service, "host"))
                    \o ":" \o TemplateText(Get(service, "port"))))

\* configDoc.services.map(...) throws a TypeError when services has no map
\* method (it is not an array) or when an element is null or undefined
MapThrows(list) ==
    \/ list.t # "array"
    \/ \E i \in 1..Len(list.v) : Nullish(list.v[i])

\* The try/catch of loadConfig once findOne has settled with r: the value
\* assigned to services and the level of the last message logged.
LoadBody(r) ==
    IF r.threw
    THEN [services |-> Null, log |-> "error"]
    ELSE IF \/ ~Truthy(r.doc)
            \/ ~Truthy(Get(r.doc, "services"))
            \/ Get(Get(r.doc, "services"), "length") = Num(0)
         THEN [services |-> Null, log |-> "warn"]
         ELSE IF MapThrows(Get(r.doc, "services"))
              THEN [services |-> Null, log |-> "error"]
              ELSE LET list == Get(r.doc, "services").v
                   IN [services |->
                          Arr([i \in 1..Len(list) |-> MapService(list[i])]),
                       log |-> "info"]

\* list.find(obj => obj.serviceName === serviceName)
Find(list, serviceName) ==
    IF \E i \in 1..Len(list) : Get(list[i], "serviceName") = serviceName
    THEN list[CHOOSE i \in 1..Len(list) :
                /\ Get(list[i], "serviceName") = serviceName
                /\ \A j \in 1..(i - 1) :
                       Get(list[j], "serviceName") # serviceName]
    ELSE Undefined

\* The last two lines of loadConfig: services.find(...) on the snapshot
\* just assigned.  Reading find of null throws a TypeError, which rejects
\* the promise loadConfig returned.
LoadOutcome(snapshot, serviceName) ==
    IF Nullish(snapshot)
    THEN [pc |-> "threw", value |-> Str("TypeError")]
    ELSE [pc |-> "returned", value |-> Find(snapshot.v, serviceName)]

IdleLoader == [pc |-> "idle", arg |-> Undefined, configDoc |-> Undefined,
               value |-> Undefined, log |-> "none"]

\* a caller that has not asked for the snapshot yet
IdleReader == [pc |-> "idle", value |-> Undefined, of |-> Undefined]

\* a plausible slip: the list is refilled in place (services.length = 0,
\* then push), so the array a caller holds changes under its hands
HeldAfterAssignInPlace(held, snapshot) ==
    IF held.pc = "holding" /\ held.value.t = "array" /\ snapshot.t = "array"
    THEN [held EXCEPT !.value = snapshot]
    ELSE held

\* What a caller holds once loadConfig has assigned snapshot to services.
\* map builds a new array and the assignment rebinds the variable: the
\* array handed out before is not written to.
HeldAfterAssign(held, snapshot) == held

\* loadConfig(serviceName) up to its await: the query is sent
LoadConfigCall(l, serviceName) ==
    /\ loaders[l].pc # "awaiting"
    /\ loaders' = [loaders EXCEPT ![l] =
                      [pc |-> "awaiting", arg |-> serviceName,
                       configDoc |-> Undefined, value |-> Undefined,
                       log |-> "verbose"]]
    /\ UNCHANGED <<services, latest, reader, disp, netCalls, redisVars, auth>>

\* loadConfig from the point where findOne settles with r to its end
LoadConfigResume(l, r) ==
    /\ loaders[l].pc = "awaiting"
    /\ LET body == LoadBody(r)
           out == LoadOutcome(body.services, loaders[l].arg)
       IN /\ services' = body.services
          /\ loaders' = [loaders EXCEPT ![l] =
                            [pc |-> out.pc, arg |-> loaders[l].arg,
                             configDoc |-> r.doc, value |-> out.value,
                             log |-> body.log]]
          /\ latest' = [by |-> l, doc |-> r.doc]
          /\ reader' = HeldAfterAssign(reader, body.services)
    /\ UNCHANGED <<disp, netCalls, redisVars, auth>>

\* loadConfig(serviceName) while the database connection is not open:
\* conn.db is undefined, conn.db.collection throws before the await and
\* the whole call runs in one step
LoadConfigNoConnection(l, serviceName) ==
    /\ loaders[l].pc # "awaiting"
    /\ LET body == LoadBody([threw |-> TRUE, doc |-> Undefined])
           out == LoadOutcome(body.services, serviceName)
       IN /\ services' = body.services
          /\ loaders' = [loaders EXCEPT ![l] =
                            [pc |-> out.pc, arg |-> serviceName,
                             configDoc |-> Undefined, value |-> out.value,
                             log |-> body.log]]
          /\ latest' = [by |-> l, doc |-> Undefined]
          /\ reader' = HeldAfterAssign(reader, body.services)
    /\ UNCHANGED <<disp, netCalls, redisVars, auth>>

\* a plausible slip: a read that finds no snapshot starts a load
ReadSnapshotLazyLoad ==
    /\ reader' = [pc |-> "holding", value |-> servicesConfig,
                  of |-> latest.doc]
    /\ loaders' = IF Nullish(services) /\ loaders["refresh"].pc # "awaiting"
                  THEN [loaders EXCEPT !["refresh"] =
                           [pc |-> "awaiting", arg |-> Undefined,
                            configDoc |-> Undefined, value |-> Undefined,
                            log |-> "verbose"]]
                  ELSE loaders
    /\ UNCHANGED <<services, latest, disp, netCalls, redisVars, auth>>

\* a caller evaluates servicesConfig() and keeps what it returns; of notes
\* the document read by the loadConfig call that ended last before the read
ReadSnapshot ==
    /\ reader' = [pc |-> "holding", value |-> servicesConfig,
                  of |-> latest.doc]
    /\ UNCHANGED <<services, loaders, latest, disp, netCalls, redisVars, auth>>

\* ---------------------------------------------------------- axiosClient.js
\* JSON.stringify of the values identity headers are built from.  The keys
\* of an object are written one after the other; the objects used here have
\* one key, so the order of insertion is the only order.
RECURSIVE JSONStringify(_)
RECURSIVE StringifyItems(_, _)
RECURSIVE StringifyKeys(_, _)
StringifyItems(seq, i) ==
    IF i > Len(seq) THEN ""
    ELSE (IF i > 1 THEN "," ELSE "") \o JSONStringify(seq[i])
         \o StringifyItems(seq, i + 1)

StringifyKeys(rec, keys) ==
    IF keys = {} THEN ""
    ELSE LET k == CHOOSE x \in keys : TRUE
         IN "\"" \o k \o "\":" \o JSONStringify(rec[k])
            \o (IF keys = {k} THEN "" ELSE ",")
            \o StringifyKeys(rec, keys \ {k})

JSONStringify(x) ==
    CASE x.t = "string" -> "\"" \o x.v \o "\""
      [] x.t = "number" -> ToString(x.v)
      [] x.t = "array" -> "[" \o StringifyItems(x.v, 1) \o "]"
      [] x.t = "object" -> "{" \o StringifyKeys(x.v, DOMAIN x.v) \o "}"
      [] x.t = "objectid" -> "\"" \o x.v \o "\""
      [] OTHER -> "null"

\* the messages of the four errors the request interceptor throws
ErrNoServices == "No hay configuraciones de servicios cargadas"
ErrNotFound == "Configuracion no encontrada para el servicio de destino"
ErrNoHostPort == "El servicio no tiene 'host' o 'port' definidos"
ErrNoToken == "No se encontro token de configuracion para el servicio"

Threw(message) == [threw |-> TRUE, error |-> Obj([message |-> Str(message)]),
                   config |-> Undefined]
Returned(config) == [threw |-> FALSE, error |-> Undefined, config |-> config]

\* axiosReqConfig.headers[name] = value
SetHeader(config, name, value) ==
    Spread(config, "headers", Spread(Get(config, "headers"), name, value))

\* a plausible slip: every identity value goes through JSON.stringify
AttachIdentityAllJson(config, tokenContext) ==
    LET c1 == IF Truthy(Get(tokenContext, "company"))
              THEN SetHeader(config, HDR_USER_COMPANY,
                     Str(JSONStringify(Get(tokenContext, "company"))))
              ELSE config
        c2 == IF Truthy(Get(tokenContext, "username"))
              THEN SetHeader(c1, HDR_USER_NAME,
                     Str(JSONStringify(Get(tokenContext, "username"))))
              ELSE c1
    IN IF Truthy(Get(tokenContext, "roles"))
       THEN SetHeader(c2, HDR_USER_ROLES,
              Str(JSONStringify(Get(tokenContext, "roles"))))
       ELSE c2

\* a plausible slip: the header of the company carries the id of the
\* company and not the company as JSON text
AttachIdentityCompanyId(config, tokenContext) ==
    LET c1 == IF Truthy(Get(tokenContext, "company"))
              THEN SetHeader(config, HDR_USER_COMPANY,
                     Get(Get(tokenContext, "company"), "id"))
              ELSE config
        c2 == IF Truthy(Get(tokenContext, "username"))
              THEN SetHeader(c1, HDR_USER_NAME, Get(tokenContext, "username"))
              ELSE c1
    IN IF Truthy(Get(tokenContext, "roles"))
       THEN SetHeader(c2, HDR_USER_ROLES,
              Str(JSONStringify(Get(tokenContext, "roles"))))
       ELSE c2

\* the three if-statements on tokenContext.company / username / roles
AttachIdentity(config, tokenContext) ==
    LET c1 == IF Truthy(Get(tokenContext, "company"))
              THEN SetHeader(config, HDR_USER_COMPANY,
                     Str(JSONStringify(Get(tokenContext, "company"))))
              ELSE config
        c2 == IF Truthy(Get(tokenContext, "username"))
              THEN SetHeader(c1, HDR_USER_NAME, Get(tokenContext, "username"))
              ELSE c1
    IN IF Truthy(Get(tokenContext, "roles"))
       THEN SetHeader(c2, HDR_USER_ROLES,
              Str(JSONStringify(Get(tokenContext, "roles"))))
       ELSE c2

\* a plausible slip: the identity headers are attached before the source
\* type is looked at, so a webhook call carries them too
ContextHeadersWebhookToo(config) ==
    LET tokenContext == Get(config, "tokenContext")
        c == IF Truthy(tokenContext)
             THEN AttachIdentity(config, tokenContext)
             ELSE config
    IN IF /\ Truthy(Get(config, "sourceType"))
          /\ Get(config, "sourceType") = Str(WEBHOOK_SOURCE_TYPE)
       THEN SetHeader(c, HDR_SOURCE_TYPE, Str(WEBHOOK_SOURCE_TYPE))
       ELSE c

\* step 4 of the request interceptor, second half: the source-type marker
\* or the identity headers
ContextHeaders(config) ==
    IF /\ Truthy(Get(config, "sourceType"))
       /\ Get(config, "sourceType") = Str(WEBHOOK_SOURCE_TYPE)
    THEN SetHeader(config, HDR_SOURCE_TYPE, Str(WEBHOOK_SOURCE_TYPE))
    ELSE LET tokenContext == Get(config, "tokenContext")
         IN IF Truthy(tokenContext)
            THEN AttachIdentity(config, tokenContext)
            ELSE config

\* a plausible slip: an unknown name falls back to the first descriptor
FindServiceOrFirst(allServices, targetServiceName) ==
    IF Truthy(targetServiceName)
       /\ Find(allServices.v, targetServiceName) # Undefined
    THEN Find(allServices.v, targetServiceName)
    ELSE allServices.v[1]

\* step 2 of the request interceptor: the descriptor of the target service
FindService(allServices, targetServiceName) ==
    IF Truthy(targetServiceName)
    THEN Find(allServices.v, targetServiceName)
    ELSE Null

\* a plausible slip: the port is left out of the base address
ServiceBaseUrlNoPort(serviceConfig) ==
    "http://" \o TemplateText(Get(serviceConfig, "host"))

\* `http://${serviceConfig.host}:${serviceConfig.port}`
ServiceBaseUrl(serviceConfig) ==
    "http://" \o TemplateText(Get(serviceConfig, "host"))
    \o ":" \o TemplateText(Get(serviceConfig, "port"))

\* a plausible slip: a descriptor without token is let through without the
\* trust header, as the warning "No se agregara" suggests
InternalHeaderOptional(config, serviceConfig) ==
    IF Truthy(Get(serviceConfig, "token"))
    THEN Returned(SetHeader(config, HDR_INTERNAL_REQUEST,
                            Get(serviceConfig, "token")))
    ELSE Returned(config)

\* step 3 of the request interceptor: the trust header, or the error thrown
\* when the descriptor has no token
InternalHeader(config, serviceConfig) ==
    IF Truthy(Get(serviceConfig, "token"))
    THEN Returned(SetHeader(config, HDR_INTERNAL_REQUEST,
                            Get(serviceConfig, "token")))
    ELSE Threw(ErrNoToken)

\* step 4 of the request interceptor, first half
CommonHeaders(config) ==
    SetHeader(SetHeader(config, HDR_USER_AGENT, Str("Gateway-Proxy")),
              HDR_CONTENT_TYPE, Str("application/json"))

\* a plausible slip: the token is taken from the last descriptor of the list
\* and not from the descriptor of the target service
RequestInterceptorTokenOfLast(axiosReqConfig, allServices) ==
    IF ~Truthy(allServices) \/ Get(allServices, "length") = Num(0)
    THEN Threw(ErrNoServices)
    ELSE
    LET serviceConfig ==
            FindService(allServices, Get(axiosReqConfig, "serviceName"))
    IN IF ~Truthy(serviceConfig)
       THEN Threw(ErrNotFound)
       ELSE IF ~Truthy(Get(serviceConfig, "host"))
               \/ ~Truthy(Get(serviceConfig, "port"))
       THEN Threw(ErrNoHostPort)
       ELSE
       LET withBase == Spread(axiosReqConfig, "baseURL",
                              Str(ServiceBaseUrl(serviceConfig)))
           withTrust == InternalHeader(withBase,
                                       allServices.v[Len(allServices.v)])
       IN IF withTrust.threw
          THEN withTrust
          ELSE Returned(ContextHeaders(CommonHeaders(withTrust.config)))

\* a plausible slip: the token is checked before host and port
RequestInterceptorTokenFirst(axiosReqConfig, allServices) ==
    IF ~Truthy(allServices) \/ Get(allServices, "length") = Num(0)
    THEN Threw(ErrNoServices)
    ELSE
    LET serviceConfig ==
            FindService(allServices, Get(axiosReqConfig, "serviceName"))
    IN IF ~Truthy(serviceConfig)
       THEN Threw(ErrNotFound)
       ELSE IF ~Truthy(Get(serviceConfig, "token"))
       THEN Threw(ErrNoToken)
       ELSE IF ~Truthy(Get(serviceConfig, "host"))
               \/ ~Truthy(Get(serviceConfig, "port"))
       THEN Threw(ErrNoHostPort)
       ELSE
       LET withBase == Spread(axiosReqConfig, "baseURL",
                              Str(ServiceBaseUrl(serviceConfig)))
           withTrust == InternalHeader(withBase, serviceConfig)
       IN Returned(ContextHeaders(CommonHeaders(withTrust.config)))

\* the fulfilled handler of interceptors.request.use, applied to the request
\* configuration while the registry holds allServices
RequestInterceptor(axiosReqConfig, allServices) ==
    IF ~Truthy(allServices) \/ Get(allServices, "length") = Num(0)
    THEN Threw(ErrNoServices)
    ELSE
    LET serviceConfig ==
            FindService(allServices, Get(axiosReqConfig, "serviceName"))
    IN IF ~Truthy(serviceConfig)
       THEN Threw(ErrNotFound)
       ELSE IF ~Truthy(Get(serviceConfig, "host"))
               \/ ~Truthy(Get(serviceConfig, "port"))
       THEN Threw(ErrNoHostPort)
       ELSE
       LET withBase == Spread(axiosReqConfig, "baseURL",
                              Str(ServiceBaseUrl(serviceConfig)))
           withTrust == InternalHeader(withBase, serviceConfig)
       IN IF withTrust.threw
          THEN withTrust
          ELSE Returned(ContextHeaders(CommonHeaders(withTrust.config)))

\* "URL completa" of the interceptor: baseURL followed by the relative url
FullUrl(config) ==
    TemplateText(Get(config, "baseURL")) \o TemplateText(Get(config, "url"))

\* the fulfilled handler of interceptors.response.use
ResponseFulfilled(response) == [pc |-> "resolved", value |-> response]

\* a plausible slip: the handler returns instead of rejecting, so the
\* caller's promise resolves with what the failed call left behind
ResponseRejectedSwallowed(error) ==
    [pc |-> "resolved", value |-> Get(error, "response")]

\* the rejected handler of interceptors.response.use: logs url, status and
\* data, then rejects with the error it was given
ResponseRejected(error) == [pc |-> "rejected", value |-> error]

\* ------------------------------------------------ what callers dispatch
IdentityValue(k) ==
    CASE k = "company" -> Obj([id |-> Str("c1")])
      [] k = "username" -> Str("ana")
      [] OTHER -> Arr(<<Str("admin"), Str("user")>>)

\* tokenContext: absent, all three of company / username / roles, each one
\* alone, and one whose company is null, username empty and role list empty
TokenContexts ==
    {Undefined}
    \cup { Obj([k \in S |-> IdentityValue(k)]) :
             S \in {{"company", "username", "roles"}, {"company"},
                    {"username"}, {"roles"}} }
    \cup { Obj([company |-> Null, username |-> Str(""), roles |-> Arr(<<>>)]) }

FullContext == Obj([k \in {"company", "username", "roles"} |-> IdentityValue(k)])

SourceTypes == {Undefined, Str(WEBHOOK_SOURCE_TYPE), Str("internal")}

TargetNames == {Undefined, Str(""), Str("billing"), Str("users"), Str("mail"),
                Str("audit"), Str("ledger"), Str("ghost")}

\* headers the caller put on the request itself
NoHeaders == Obj(<<>>)
CallerHeaders ==
    Obj([h \in {HDR_INTERNAL_REQUEST, HDR_USER_NAME, HDR_SOURCE_TYPE} |->
            IF h = HDR_INTERNAL_REQUEST THEN Str("forged")
            ELSE IF h = HDR_USER_NAME THEN Str("mallory") ELSE Str("cron")])

Request(url, serviceName, sourceType, tokenContext, hdrs) ==
    LET fields == {"url", "headers"}
                  \cup (IF serviceName = Undefined THEN {} ELSE {"serviceName"})
                  \cup (IF sourceType = Undefined THEN {} ELSE {"sourceType"})
                  \cup (IF tokenContext = Undefined THEN {}
                        ELSE {"tokenContext"})
    IN Obj([f \in fields |->
              CASE f = "url" -> Str(url)
                [] f = "headers" -> hdrs
                [] f = "serviceName" -> serviceName
                [] f = "sourceType" -> sourceType
                [] OTHER -> tokenContext])

\* The request configurations handed to internalApiClient: every target
\* name, every identity on an internal call, webhook calls with and without
\* an identity, a second path, and requests that arrive with headers of
\* their own.
Requests ==
    { Request("/invoices", n, Undefined, FullContext, NoHeaders) :
        n \in TargetNames }
    \cup { Request("/invoices", Str("billing"), Undefined, tc, NoHeaders) :
             tc \in TokenContexts }
    \cup { Request("/invoices", Str("billing"), st, tc, NoHeaders) :
             st \in SourceTypes \ {Undefined},
             tc \in {Undefined, FullContext} }
    \cup { Request("/users/profile", Str("billing"), Undefined, Undefined,
                   NoHeaders) }
    \cup { Request("/invoices", Str("billing"), st, FullContext,
                   CallerHeaders) :
             st \in {Undefined, Str(WEBHOOK_SOURCE_TYPE)} }

\* What the network gives back for a request that was sent: a response with
\* a status and maybe a body, or no response at all
NetOutcomes ==
    { [response |-> Obj([status |-> Num(200), data |-> Obj([ok |-> Num(1)])])],
      [response |-> Obj([status |-> Num(404), data |-> Str("not found")])],
      [response |-> Obj([status |-> Num(502)])],
      [response |-> Undefined] }

\* validateStatus of the axios instance (the default, axios.create sets none)
ValidateStatus(status) == status.v >= 200 /\ status.v < 300

\* the error axios rejects with for a sent request
AxiosError(config, outcome) ==
    IF outcome.response = Undefined
    THEN Obj([message |-> Str("Network Error"), config |-> config])
    ELSE Obj([message |-> Str("Request failed"), config |-> config,
              response |-> outcome.response])

\* disp: where the request is (pc), the configuration the caller passed
\* (req), the interceptor's reading of the registry (allServices), the
\* configuration put on the wire (config), what the network gave back
\* (outcome), what the caller's promise settled with (result), the physical
\* calls made for this request (calls) and whether the request before this
\* one was the same request and was sent (again)
IdleDispatch == [pc |-> "idle", req |-> Undefined, allServices |-> Undefined,
                 config |-> Undefined, outcome |-> Undefined,
                 result |-> Undefined, calls |-> 0, again |-> FALSE]

\* a plausible slip: a request equal to the one just answered is served
\* from the previous answer and no call is made
DispatchDeduplicating(req) ==
    /\ disp.pc # "sent"
    /\ netCalls < MaxCalls
    /\ LET r == RequestInterceptor(req, servicesConfig)
           again == disp.req = req /\ disp.calls = 1
       IN IF r.threw
          THEN /\ disp' = [pc |-> "rejected", req |-> req,
                           allServices |-> servicesConfig,
                           config |-> Undefined, outcome |-> Undefined,
                           result |-> r.error, calls |-> 0, again |-> again]
               /\ netCalls' = netCalls
          ELSE IF again /\ disp.pc = "resolved"
          THEN /\ disp' = [disp EXCEPT !.again = TRUE]
               /\ netCalls' = netCalls
          ELSE /\ disp' = [pc |-> "sent", req |-> req,
                           allServices |-> servicesConfig,
                           config |-> r.config, outcome |-> Undefined,
                           result |-> Undefined, calls |-> 1,
                           again |-> again]
               /\ netCalls' = netCalls + 1
    /\ UNCHANGED <<services, loaders, latest, reader, redisVars, auth>>

\* internalApiClient.request(req) up to the moment the request is on the
\* wire, or to its rejection when the request interceptor throws (the
\* rejection goes down the promise chain through the response interceptor)
Dispatch(req) ==
    /\ disp.pc # "sent"
    /\ netCalls < MaxCalls
    /\ LET r == RequestInterceptor(req, servicesConfig)
           again == disp.req = req /\ disp.calls = 1
       IN IF r.threw
          THEN LET s == ResponseRejected(r.error)
               IN /\ disp' = [pc |-> s.pc, req |-> req,
                              allServices |-> servicesConfig,
                              config |-> Undefined, outcome |-> Undefined,
                              result |-> s.value, calls |-> 0,
                              again |-> again]
                  /\ netCalls' = netCalls
          ELSE /\ disp' = [pc |-> "sent", req |-> req,
                           allServices |-> servicesConfig,
                           config |-> r.config, outcome |-> Undefined,
                           result |-> Undefined, calls |-> 1,
                           again |-> again]
               /\ netCalls' = netCalls + 1
    /\ UNCHANGED <<services, loaders, latest, reader, redisVars, auth>>

\* the network settles the request that is on the wire and the response
\* interceptor hands the outcome to the caller
Respond(outcome) ==
    /\ disp.pc = "sent"
    /\ LET s == IF outcome.response # Undefined
                   /\ ValidateStatus(Get(outcome.response, "status"))
                THEN ResponseFulfilled(
                         Spread(outcome.response, "config", disp.config))
                ELSE ResponseRejected(AxiosError(disp.config, outcome))
       IN disp' = [disp EXCEPT !.pc = s.pc, !.outcome = outcome.response,
                               !.result = s.value]
    /\ UNCHANGED <<services, loaders, latest, reader, netCalls, redisVars, auth>>

\* ---------------------------------------------- the Redis service (ioredis)
\* JSON.parse over the texts JSON.stringify gives for the values below: the
\* value whose text it is, and a SyntaxError for any other text
JsonValues ==
    { Null, Num(7), Str("ping"), Str("payload"), Obj([order |-> Num(7)]),
      Arr(<<Str("ping")>>), Str("64ab"), Num(111), Num(119),
      Obj([id |-> Str("T1")]), Arr(<<Str("admin")>>),
      Obj([id |-> Str("c1")]), Arr(<<Str("admin"), Str("user")>>),
      Arr(<<>>) }

JSONParse(text) ==
    IF \E x \in JsonValues : JSONStringify(x) = text
    THEN [threw |-> FALSE,
          value |-> CHOOSE x \in JsonValues : JSONStringify(x) = text]
    ELSE [threw |-> TRUE, value |-> Str("SyntaxError")]

\* the stream, the consumer groups and the consumers of the channel
StreamKeys == {"orders"}
GroupNames == {"workers", "audit"}
Consumers == {"c1", "c2"}

\* the message bodies published: JSON values
Payloads == {Obj([order |-> Num(7)]), Str("ping")}

\* The id Redis gives the n-th entry added to a stream.  Ids are texts of a
\* millisecond time and a sequence number; Redis orders them by the numbers.
IdText(n) == ToString(n) \o "-0"

\* the errors a Redis command is rejected with
ErrBusyGroup == "BUSYGROUP Consumer Group name already exists"
ErrNoGroup == "NOGROUP No such key or consumer group"
ErrClosed == "Connection is closed."

\* error.message.includes('BUSYGROUP'), over the messages above
IncludesBusyGroup(message) == message = ErrBusyGroup

\* a plausible slip: only the missing client is tested
NotReadyMissingOnly(c) == ~Truthy(c)

\* !client || client.status !== 'ready'
NotReady(c) == ~Truthy(c) \/ Get(c, "status") # Str("ready")

NoGroup == [exists |-> FALSE, last |-> 0, pending |-> {}]

\* a plausible slip: 0 where the code has $, which starts the group at the
\* first entry of the stream
XGroupCreateFromStart(st, grp, fault) ==
    IF fault THEN [err |-> ErrClosed, group |-> grp]
    ELSE IF grp.exists THEN [err |-> ErrBusyGroup, group |-> grp]
    ELSE [err |-> "none",
          group |-> [exists |-> TRUE, last |-> 0, pending |-> {}]]

\* XGROUP CREATE key group $ MKSTREAM: a new group starts at the last id of
\* the stream; a group that exists is left alone and the command fails
XGroupCreate(st, grp, fault) ==
    IF fault THEN [err |-> ErrClosed, group |-> grp]
    ELSE IF grp.exists THEN [err |-> ErrBusyGroup, group |-> grp]
    ELSE [err |-> "none",
          group |-> [exists |-> TRUE, last |-> st.lastId, pending |-> {}]]

\* XADD key * payload text: the entry gets the next id and goes to the end
XAdd(st, text, fault) ==
    IF fault THEN [err |-> ErrClosed, value |-> Null, stream |-> st]
    ELSE LET n == st.lastId + 1
         IN [err |-> "none", value |-> Str(IdText(n)),
             stream |-> [entries |-> Append(st.entries,
                                            [id |-> n,
                                             fields |-> <<"payload", text>>]),
                         lastId |-> n]]

\* the entries of the stream the group has not delivered to any consumer
Undelivered(st, grp) ==
    SelectSeq(st.entries, LAMBDA e : e.id > grp.last)

\* a plausible slip: 0 where the code has >, which asks Redis for the
\* entries already pending and never for new ones
XReadGroupPendingOnly(st, grp, count, fault) ==
    IF fault THEN [err |-> ErrClosed, value |-> Null, group |-> grp]
    ELSE IF ~grp.exists THEN [err |-> ErrNoGroup, value |-> Null, group |-> grp]
    ELSE [err |-> "none",
          value |-> Arr(<< Arr(<< Str("orders"),
                                  Arr(SelectSeq(st.entries,
                                        LAMBDA e : e.id \in grp.pending)) >>) >>),
          group |-> grp]

\* a plausible slip: entries that are pending, delivered but not
\* acknowledged, are taken again together with the new ones
XReadGroupRedelivers(st, grp, count, fault) ==
    IF fault THEN [err |-> ErrClosed, value |-> Null, group |-> grp]
    ELSE IF ~grp.exists THEN [err |-> ErrNoGroup, value |-> Null, group |-> grp]
    ELSE LET new == SelectSeq(st.entries,
                       LAMBDA e : e.id > grp.last \/ e.id \in grp.pending)
             taken == SubSeq(new, 1, IF Len(new) < count THEN Len(new)
                                     ELSE count)
         IN IF taken = <<>>
            THEN [err |-> "none", value |-> Null, group |-> grp]
            ELSE [err |-> "none",
                  value |-> Arr(<< Arr(<< Str("orders"), Arr(taken) >>) >>),
                  group |-> [exists |-> TRUE,
                             last |-> IF taken[Len(taken)].id > grp.last
                                      THEN taken[Len(taken)].id ELSE grp.last,
                             pending |-> grp.pending \cup
                                { taken[i].id : i \in 1..Len(taken) }]]

\* XREADGROUP GROUP group consumer BLOCK block COUNT count STREAMS key > once
\* Redis answers: the first count undelivered entries, which become pending
\* in the group, or nil when the block time ended with none.  The pending
\* list also names the consumer of each entry; nothing here reads the name.
XReadGroup(st, grp, count, fault) ==
    IF fault THEN [err |-> ErrClosed, value |-> Null, group |-> grp]
    ELSE IF ~grp.exists THEN [err |-> ErrNoGroup, value |-> Null, group |-> grp]
    ELSE LET new == Undelivered(st, grp)
             taken == SubSeq(new, 1, IF Len(new) < count THEN Len(new)
                                     ELSE count)
         IN IF taken = <<>>
            THEN [err |-> "none", value |-> Null, group |-> grp]
            ELSE [err |-> "none",
                  value |-> Arr(<< Arr(<< Str("orders"), Arr(taken) >>) >>),
                  group |-> [exists |-> TRUE,
                             last |-> taken[Len(taken)].id,
                             pending |-> grp.pending \cup
                                { taken[i].id : i \in 1..Len(taken) }]]

\* the ids XACK is given: ioredis flattens an array of ids into arguments
IdArgs(messageIds) ==
    IF messageIds.t = "array"
    THEN { messageIds.v[i].v : i \in 1..Len(messageIds.v) }
    ELSE {messageIds.v}

\* a plausible slip: the ids given are counted, not the ids removed
XAckCountsGiven(grp, messageIds, fault) ==
    IF fault THEN [err |-> ErrClosed, value |-> Null, group |-> grp]
    ELSE LET hit == { n \in grp.pending : IdText(n) \in IdArgs(messageIds) }
         IN [err |-> "none", value |-> Num(Cardinality(IdArgs(messageIds))),
             group |-> [grp EXCEPT !.pending = grp.pending \ hit]]

\* XACK key group id ...: the ids that are pending leave the pending list
\* and are counted; a group that does not exist has none
XAck(grp, messageIds, fault) ==
    IF fault THEN [err |-> ErrClosed, value |-> Null, group |-> grp]
    ELSE LET hit == { n \in grp.pending : IdText(n) \in IdArgs(messageIds) }
         IN [err |-> "none", value |-> Num(Cardinality(hit)),
             group |-> [grp EXCEPT !.pending = grp.pending \ hit]]

\* fields[fields.indexOf('payload') + 1]; indexOf gives -1 when the field is
\* not there, and the element at 0 is then taken
FieldAfterPayload(fields) ==
    IF \E i \in 1..Len(fields) : fields[i] = "payload"
    THEN LET at == CHOOSE i \in 1..Len(fields) :
                      /\ fields[i] = "payload"
                      /\ \A j \in 1..(i - 1) : fields[j] # "payload"
         IN IF at + 1 <= Len(fields) THEN fields[at + 1] ELSE "undefined"
    ELSE fields[1]

\* a plausible slip: the payload is handed over as the text it was stored as
ParseMessageRaw(msg) ==
    [threw |-> FALSE,
     value |-> Obj([id |-> Str(IdText(msg.id)),
                    payload |-> Str(FieldAfterPayload(msg.fields))])]

\* the callback of messages.map: {id, payload} of one entry
ParseMessage(msg) ==
    LET parsed == JSONParse(FieldAfterPayload(msg.fields))
    IN IF parsed.threw THEN parsed
       ELSE [threw |-> FALSE,
             value |-> Obj([id |-> Str(IdText(msg.id)),
                            payload |-> parsed.value])]

\* a plausible slip: an entry whose payload does not parse is left out and
\* the rest of the batch is returned
ReadResultSkipsMalformed(reply) ==
    IF reply.err # "none" THEN Null
    ELSE IF ~Truthy(reply.value) THEN Arr(<<>>)
    ELSE LET messages == reply.value.v[1].v[2].v
             good == SelectSeq(messages, LAMBDA m : ~ParseMessage(m).threw)
         IN Arr([i \in 1..Len(good) |-> ParseMessage(good[i]).value])

\* a plausible slip: the catch block gives the empty list as well
ReadResultQuiet(reply) ==
    IF reply.err # "none" THEN Arr(<<>>)
    ELSE IF ~Truthy(reply.value) THEN Arr(<<>>)
    ELSE LET messages == reply.value.v[1].v[2].v
         IN Arr([i \in 1..Len(messages) |-> ParseMessage(messages[i]).value])

\* a plausible slip: the newest entry is put first
ReadResultNewestFirst(reply) ==
    IF reply.err # "none" THEN Null
    ELSE IF ~Truthy(reply.value) THEN Arr(<<>>)
    ELSE LET messages == reply.value.v[1].v[2].v
         IN Arr([i \in 1..Len(messages) |->
                    ParseMessage(messages[Len(messages) + 1 - i]).value])

\* what readFromStreamGroup returns once xreadgroup has settled with reply
ReadResult(reply) ==
    IF reply.err # "none" THEN Null
    ELSE IF ~Truthy(reply.value) THEN Arr(<<>>)
    ELSE LET messages == reply.value.v[1].v[2].v
         IN IF \E i \in 1..Len(messages) : ParseMessage(messages[i]).threw
            THEN Null
            ELSE Arr([i \in 1..Len(messages) |->
                         ParseMessage(messages[i]).value])

\* a plausible slip: every rejection of xgroup counts as "already there"
SetupResultAnyError(reply) == Bool(TRUE)

\* what setupStreamGroup returns once xgroup has settled with reply
SetupResult(reply) ==
    IF reply.err = "none" THEN Bool(TRUE)
    ELSE IF IncludesBusyGroup(reply.err) THEN Bool(TRUE)
    ELSE Bool(FALSE)

\* options.block || 5000 and options.count || 1
DefaultBlock == 5000
DefaultCount == 1

BlockOf(options) ==
    IF Truthy(Get(options, "block")) THEN Get(options, "block").v
    ELSE DefaultBlock

CountOf(options) ==
    IF Truthy(Get(options, "count")) THEN Get(options, "count").v
    ELSE DefaultCount

\* the options readFromStreamGroup is called with
ReadOptions ==
    { Obj([block |-> Num(0)]), Obj([block |-> Num(250), count |-> Num(2)]) }

\* the ids ackStreamMessage is called with: one id, a list of ids, an id
\* that was never given out
AckArgs ==
    { Str(IdText(0)), Str(IdText(1)),
      Arr(<<Str(IdText(1)), Str(IdText(2))>>) }

IdleRead == [pc |-> "idle", group |-> "", block |-> 0, count |-> 0]
NoCall == [op |-> "none", group |-> "", arg |-> Undefined, err |-> "none",
           result |-> Undefined]

\* connect(): the client is created and becomes ready
Connect ==
    /\ client = Null
    /\ client' = Obj([status |-> Str("ready")])
    /\ UNCHANGED <<stream, groups, reading, call, handed, store, proj, connVars,
                 httpVars, auth>>

\* setupStreamGroup(streamKey, groupName)
SetupStreamGroup(streamKey, groupName, fault) ==
    /\ IF NotReady(client)
       THEN /\ call' = [op |-> "setupStreamGroup",
                        group |-> groupName, arg |-> Undefined,
                        err |-> "not ready", result |-> Bool(FALSE)]
            /\ groups' = groups
       ELSE LET reply == XGroupCreate(stream[streamKey],
                                      groups[streamKey][groupName], fault)
            IN /\ call' = [op |-> "setupStreamGroup",
                           group |-> groupName, arg |-> Undefined,
                           err |-> reply.err, result |-> SetupResult(reply)]
               /\ groups' = [groups EXCEPT ![streamKey][groupName] =
                                reply.group]
    /\ UNCHANGED <<client, stream, reading, handed, store, proj, connVars,
                 httpVars, auth>>

\* publishToStream(streamKey, messagePayload)
PublishToStream(streamKey, messagePayload, fault) ==
    /\ stream[streamKey].lastId < MaxMsgs
    /\ IF NotReady(client)
       THEN /\ call' = [op |-> "publishToStream",
                        group |-> "", arg |-> messagePayload,
                        err |-> "not ready", result |-> Null]
            /\ stream' = stream
       ELSE LET payloadString == JSONStringify(messagePayload)
                reply == XAdd(stream[streamKey], payloadString, fault)
            IN /\ call' = [op |-> "publishToStream",
                           group |-> "", arg |-> messagePayload,
                           err |-> reply.err, result |-> reply.value]
               /\ stream' = [stream EXCEPT ![streamKey] = reply.stream]
    /\ UNCHANGED <<client, groups, reading, handed, store, proj, connVars,
                 httpVars, auth>>

\* The stream is a key of Redis that other producers write to as well: an
\* entry is added whose fields publishToStream did not produce, which
\* readFromStreamGroup meets at fields.indexOf('payload') and JSON.parse.
ForeignFields == { <<"payload", "{oops">>, <<"body", "ping">> }

ForeignAdd(streamKey, fields) ==
    /\ stream[streamKey].lastId < MaxMsgs
    /\ stream' = [stream EXCEPT ![streamKey] =
                     [entries |-> Append(@.entries,
                                         [id |-> @.lastId + 1,
                                          fields |-> fields]),
                      lastId |-> @.lastId + 1]]
    /\ UNCHANGED <<client, groups, reading, call, handed, store, proj,
                 connVars, httpVars, auth>>

\* ackStreamMessage(streamKey, groupName, messageIds)
AckStreamMessage(streamKey, groupName, messageIds, fault) ==
    /\ IF NotReady(client)
       THEN /\ call' = [op |-> "ackStreamMessage",
                        group |-> groupName, arg |-> messageIds,
                        err |-> "not ready", result |-> Null]
            /\ groups' = groups
       ELSE LET reply == XAck(groups[streamKey][groupName], messageIds, fault)
            IN /\ call' = [op |-> "ackStreamMessage",
                           group |-> groupName, arg |-> messageIds,
                           err |-> reply.err, result |-> reply.value]
               /\ groups' = [groups EXCEPT ![streamKey][groupName] =
                                reply.group]
    /\ UNCHANGED <<client, stream, reading, handed, store, proj, connVars,
                 httpVars, auth>>

\* readFromStreamGroup(streamKey, groupName, consumerName, options) up to
\* its await: the command is sent, or null is returned at once.  Commands
\* on the one connection are answered in order, so a second xreadgroup is
\* taken up by Redis when the first has settled: one call is under way.
\* The consumer name goes to Redis as it is and nothing depends on it.
ReadCall(streamKey, groupName, consumerName, options) ==
    /\ reading.pc = "idle"
    /\ IF NotReady(client)
       THEN /\ call' = [op |-> "readFromStreamGroup", group |-> groupName,
                        arg |-> Undefined, err |-> "not ready",
                        result |-> Null]
            /\ reading' = reading
       ELSE /\ reading' = [pc |-> "blocked", group |-> groupName,
                           block |-> BlockOf(options),
                           count |-> CountOf(options)]
            /\ call' = call
    /\ UNCHANGED <<client, stream, groups, handed, store, proj, connVars,
                 httpVars, auth>>

\* a plausible slip: one position for the stream, as with a plain XREAD, so
\* that what one group takes is delivered for every group
ReadSettlesSharedPosition(streamKey, fault) ==
    /\ reading.pc = "blocked"
    /\ \E reply \in {XReadGroup(stream[streamKey],
                                 groups[streamKey][reading.group],
                                 reading.count, fault)} :
       \E result \in {ReadResult(reply)} :
          /\ (reply.err = "none" /\ reply.value = Null) => reading.block > 0
          /\ reading' = IdleRead
          /\ call' = [op |-> "readFromStreamGroup", group |-> reading.group,
                      arg |-> Num(reading.count), err |-> reply.err,
                      result |-> result]
          /\ groups' = [groups EXCEPT ![streamKey] =
                           [g \in GroupNames |->
                               IF g = reading.group THEN reply.group
                               ELSE IF groups[streamKey][g].exists
                               THEN [groups[streamKey][g] EXCEPT
                                        !.last = reply.group.last]
                               ELSE groups[streamKey][g]]]
          /\ handed' = [handed EXCEPT ![reading.group] =
                           IF result.t = "array"
                           THEN @ \cup { result.v[i].v.id.v :
                                           i \in 1..Len(result.v) }
                           ELSE @]
    /\ UNCHANGED <<client, stream, store, proj, connVars,
                 httpVars, auth>>

\* readFromStreamGroup from the point where xreadgroup settles to its end.
\* Redis answers at once when the group has undelivered entries or the
\* command fails, and with nil after block milliseconds when it has none;
\* BLOCK 0 would wait without limit.
ReadSettles(streamKey, fault) ==
    /\ reading.pc = "blocked"
    /\ \E reply \in {XReadGroup(stream[streamKey],
                                 groups[streamKey][reading.group],
                                 reading.count, fault)} :
       \E result \in {ReadResult(reply)} :
          /\ (reply.err = "none" /\ reply.value = Null) => reading.block > 0
          /\ reading' = IdleRead
          /\ call' = [op |-> "readFromStreamGroup", group |-> reading.group,
                      arg |-> Num(reading.count), err |-> reply.err,
                      result |-> result]
          /\ groups' = [groups EXCEPT ![streamKey][reading.group] =
                           reply.group]
          /\ handed' = [handed EXCEPT ![reading.group] =
                           IF result.t = "array"
                           THEN @ \cup { result.v[i].v.id.v :
                                           i \in 1..Len(result.v) }
                           ELSE @]
    /\ UNCHANGED <<client, stream, store, proj, connVars,
                 httpVars, auth>>

\* --------------------------------- the projector (company settings in Redis)
\* redisKeyPrefix and metaChannels of constants.js
redisKeyPrefix ==
    [ COMPANY_SETTINGS |-> "company_settings",
      WAP_PHONE_NUMBER_ID |-> "wapPhoneNumberId",
      MSN_PAGE_ID |-> "msnPageId",
      IGM_BUSINESS_ACCOUNT_ID |-> "igmBusinessAccountId" ]

metaChannels ==
    [ WHATSAPP |-> "whatsapp", MESSENGER |-> "messenger",
      INSTAGRAM |-> "instagram" ]

\* typeof x
TypeOf(x) ==
    IF x.t \in {"object", "array", "null", "objectid"} THEN "object" ELSE x.t

\* getDeepValue(obj, pathArray): the reduce over the keys of the path
RECURSIVE GetDeepValue(_, _)
GetDeepValue(obj, pathArray) ==
    IF pathArray = <<>> THEN obj
    ELSE GetDeepValue(
             IF /\ Truthy(obj)
                /\ TypeOf(obj) = "object"
                /\ Get(obj, Head(pathArray)) # Undefined
             THEN Get(obj, Head(pathArray))
             ELSE Undefined,
             Tail(pathArray))

defaultMetaIndexers ==
    << [platformName |-> metaChannels.WHATSAPP,
        tokenPath |-> <<"meta_integrations", "whatsapp", "phoneNumberId">>,
        redisKeyPrefix |-> redisKeyPrefix.WAP_PHONE_NUMBER_ID],
       [platformName |-> metaChannels.MESSENGER,
        tokenPath |-> <<"meta_integrations", "messenger", "pageId">>,
        redisKeyPrefix |-> redisKeyPrefix.MSN_PAGE_ID],
       [platformName |-> metaChannels.INSTAGRAM,
        tokenPath |-> <<"meta_integrations", "instagram",
                        "instagramBusinessAccountId">>,
        redisKeyPrefix |-> redisKeyPrefix.IGM_BUSINESS_ACCOUNT_ID] >>

\* the text setData stores for a value
StoreValue(value) ==
    IF Nullish(value) THEN ""
    ELSE IF TypeOf(value) = "object" THEN JSONStringify(value)
    ELSE TemplateText(value)

\* getData: the stored text decoded as JSON, or as it is when it is not JSON
DecodeStored(text) ==
    IF JSONParse(text).threw THEN Str(text) ELSE JSONParse(text).value

\* a plausible slip: the keys that held the value before are removed
SetDataOneKeyPerValue(kv, key, value, fault) ==
    IF NotReady(client) \/ key.t # "string" \/ fault
    THEN [result |-> Null, log |-> "error", store |-> kv]
    ELSE [result |-> Str("OK"), log |-> "verbose",
          store |-> [k \in {j \in DOMAIN kv : kv[j] # StoreValue(value)}
                              \cup {key.v} |->
                        IF k = key.v THEN StoreValue(value) ELSE kv[k]]]

\* setData(key, value) on the keys kv holds: what it returns, the level of
\* the line it logs and what the keys hold after it; set is rejected by Redis
\* when fault
SetData(kv, key, value, fault) ==
    IF NotReady(client) \/ key.t # "string" \/ fault
    THEN [result |-> Null, log |-> "error", store |-> kv]
    ELSE [result |-> Str("OK"), log |-> "verbose",
          store |-> [k \in DOMAIN kv \cup {key.v} |->
                        IF k = key.v THEN StoreValue(value) ELSE kv[k]]]

\* what a call of the projector has done so far: the keys it holds and the
\* setData calls it made
Progress(kv) == [store |-> kv, writes |-> <<>>]

WriteThrough(p, key, value, fault) ==
    LET r == SetData(p.store, key, value, fault)
    IN [store |-> r.store,
        writes |-> Append(p.writes, [key |-> key.v, result |-> r.result,
                                     log |-> r.log])]

\* saveMainCompanySettings(companyId, systemSettings, companyName)
SaveMainCompanySettings(p, companyId, systemSettings, faults) ==
    WriteThrough(p, Str(redisKeyPrefix.COMPANY_SETTINGS \o ":" \o TemplateText(companyId)),
                 systemSettings, "primary" \in faults)

\* a plausible slip: the test of tokenValue is left out
ProcessAndSaveSecondaryIndexAlways(p, companyId, systemSettings, indexerConfig, faults) ==
    LET tokenValue == GetDeepValue(systemSettings, indexerConfig.tokenPath)
    IN WriteThrough(p, Str(indexerConfig.redisKeyPrefix \o ":"
                           \o TemplateText(tokenValue)),
                    companyId, indexerConfig.platformName \in faults)

\* processAndSaveSecondaryIndex(companyId, systemSettings, indexerConfig)
ProcessAndSaveSecondaryIndex(p, companyId, systemSettings, indexerConfig, faults) ==
    LET tokenValue == GetDeepValue(systemSettings, indexerConfig.tokenPath)
    IN IF Truthy(tokenValue)
       THEN WriteThrough(p, Str(indexerConfig.redisKeyPrefix \o ":"
                                \o TemplateText(tokenValue)),
                         companyId, indexerConfig.platformName \in faults)
       ELSE p

\* a plausible slip: the test of system_settings is left out
InvalidCompanyNoSettingsTest(company) ==
    \/ ~Truthy(company)
    \/ ~Truthy(Get(company, "_id"))

\* !company || !company._id || !company.system_settings
InvalidCompany(company) ==
    \/ ~Truthy(company)
    \/ ~Truthy(Get(company, "_id"))
    \/ ~Truthy(Get(company, "system_settings"))

\* the messages of the errors thrown, without their accents and backquotes
ErrInvalidSave == "Objeto company invalido o faltan _id o system_settings."
ErrInvalidUpdate == "Objeto company invalido."
ErrNoChannel == "El parametro channel es obligatorio."
ErrNoIndexer == "Configuracion de indexador no encontrada para el canal: "

\* the for loop over the indexers, from the i-th on
\* a plausible slip: the loop ends at the first write that fails
RECURSIVE IndexersFromUntilFailure(_, _, _, _, _)
IndexersFromUntilFailure(i, p, companyId, systemSettings, faults) ==
    IF i > Len(defaultMetaIndexers) THEN p
    ELSE IF Len(p.writes) > 1 /\ p.writes[Len(p.writes)].result = Null THEN p
    ELSE IndexersFromUntilFailure(i + 1,
                      ProcessAndSaveSecondaryIndex(p, companyId,
                          systemSettings, defaultMetaIndexers[i], faults),
                      companyId, systemSettings, faults)

RECURSIVE IndexersFrom(_, _, _, _, _)
IndexersFrom(i, p, companyId, systemSettings, faults) ==
    IF i > Len(defaultMetaIndexers) THEN p
    ELSE IndexersFrom(i + 1,
                      ProcessAndSaveSecondaryIndex(p, companyId,
                          systemSettings, defaultMetaIndexers[i], faults),
                      companyId, systemSettings, faults)

\* a plausible slip: a channel without indexer falls back to the first one
FindIndexerOrFirst(channel) ==
    IF \E i \in 1..Len(defaultMetaIndexers) :
          Str(defaultMetaIndexers[i].platformName) = channel
    THEN Obj(defaultMetaIndexers[
                CHOOSE i \in 1..Len(defaultMetaIndexers) :
                   Str(defaultMetaIndexers[i].platformName) = channel])
    ELSE Obj(defaultMetaIndexers[1])

\* defaultMetaIndexers.find(indexer => indexer.platformName === channel)
FindIndexer(channel) ==
    IF \E i \in 1..Len(defaultMetaIndexers) :
          Str(defaultMetaIndexers[i].platformName) = channel
    THEN Obj(defaultMetaIndexers[
                CHOOSE i \in 1..Len(defaultMetaIndexers) :
                   Str(defaultMetaIndexers[i].platformName) = channel])
    ELSE Undefined

NoProjection == [op |-> "none", company |-> Undefined, channel |-> Undefined,
                 pc |-> "idle", error |-> Undefined, writes |-> <<>>]

\* saveCompanySettingInRedis(company); faults names the writes Redis rejects
SaveCompanySettingInRedis(company, faults) ==
    /\ IF InvalidCompany(company)
       THEN /\ proj' = [op |-> "saveCompanySettingInRedis",
                        company |-> company, channel |-> Undefined,
                        pc |-> "threw", error |-> Str(ErrInvalidSave),
                        writes |-> <<>>]
            /\ store' = store
       ELSE \E done \in {IndexersFrom(1,
                            SaveMainCompanySettings(Progress(store),
                                Get(company, "_id"),
                                Get(company, "system_settings"), faults),
                            Get(company, "_id"),
                            Get(company, "system_settings"), faults)} :
               /\ proj' = [op |-> "saveCompanySettingInRedis",
                           company |-> company, channel |-> Undefined,
                           pc |-> "returned", error |-> Undefined,
                           writes |-> done.writes]
               /\ store' = done.store
    /\ UNCHANGED <<client, stream, groups, reading, call, handed, connVars,
                 httpVars, auth>>

\* updateCompanyIndexForChannelInRedis(company, channel)
UpdateCompanyIndexForChannelInRedis(company, channel, faults) ==
    /\ IF InvalidCompany(company) \/ ~Truthy(channel)
          \/ ~Truthy(FindIndexer(channel))
       THEN /\ proj' = [op |-> "updateCompanyIndexForChannelInRedis",
                        company |-> company, channel |-> channel,
                        pc |-> "threw",
                        error |-> IF InvalidCompany(company)
                                  THEN Str(ErrInvalidUpdate)
                                  ELSE IF ~Truthy(channel)
                                  THEN Str(ErrNoChannel)
                                  ELSE Str(ErrNoIndexer
                                           \o TemplateText(channel)),
                        writes |-> <<>>]
            /\ store' = store
       ELSE \E done \in {ProcessAndSaveSecondaryIndex(Progress(store),
                            Get(company, "_id"),
                            Get(company, "system_settings"),
                            FindIndexer(channel).v, faults)} :
               /\ proj' = [op |-> "updateCompanyIndexForChannelInRedis",
                           company |-> company, channel |-> channel,
                           pc |-> "returned", error |-> Undefined,
                           writes |-> done.writes]
               /\ store' = done.store
    /\ UNCHANGED <<client, stream, groups, reading, call, handed, connVars,
                 httpVars, auth>>

\* the settings documents of the companies
FullSettings ==
    Obj([meta_integrations |->
            Obj([whatsapp |-> Obj([phoneNumberId |-> Str("111")]),
                 messenger |-> Obj([pageId |-> Str("222")]),
                 instagram |->
                    Obj([instagramBusinessAccountId |-> Str("333")])])])

SettingsDocuments ==
    { FullSettings,
      Obj([meta_integrations |->
              Obj([whatsapp |-> Obj([phoneNumberId |-> Num(119)])])]),
      Obj([theme |-> Str("dark")]),
      Obj([meta_integrations |->
              Obj([whatsapp |-> Obj(<<>>),
                   messenger |-> Obj([pageId |-> Str("")]),
                   instagram |-> Null])]),
      Obj([meta_integrations |-> Str("off")]) }

\* the company objects the projector is called with: a company with each
\* settings document, one whose _id is an ObjectId, and invalid ones
Companies ==
    { Obj([_id |-> Str("T1"), name |-> Str("Acme"), system_settings |-> s]) :
        s \in SettingsDocuments }
    \cup { Obj([_id |-> ObjectId("64ab"),
                system_settings |->
                   Obj([meta_integrations |->
                           Obj([whatsapp |->
                                   Obj([phoneNumberId |-> Str("111")])])])]),
           Null,
           Obj([_id |-> Str(""), system_settings |-> FullSettings]),
           Obj([_id |-> Str("T1")]) }

\* the channels updateCompanyIndexForChannelInRedis is called with
Channels ==
    { Str(metaChannels.WHATSAPP), Str(metaChannels.MESSENGER), Str(metaChannels.INSTAGRAM), Str("telegram"),
      Undefined }

\* the writes Redis rejects during one call
FaultPatterns == { {}, {"primary"}, {metaChannels.MESSENGER} }

\* ------------------------------------- the connection and the keys of Redis
\* connect() up to its await when the module holds no client: a client is
\* created, which starts connecting
ConnectCall ==
    /\ client = Null
    /\ Len(unreferenced) < MaxOrphans
    /\ client' = Obj([status |-> Str("connecting")])
    /\ call' = [op |-> "connect", group |-> "", arg |-> Undefined,
                err |-> "none", result |-> Undefined]
    /\ UNCHANGED <<stream, groups, reading, handed, store, proj, connVars,
                 httpVars, auth>>

\* connect() up to its await when the module holds a client: a ready client
\* is kept and the call returns; over a client that is not ready a new one
\* is created and assigned, and the old one, which nothing disconnects, is
\* no longer held (a quit that close() waits for stays with it)
ConnectAgain ==
    /\ client # Null
    /\ IF ~NotReady(client)
       THEN /\ call' = [op |-> "connect", group |-> "", arg |-> Str("ready"),
                        err |-> "none", result |-> Undefined]
            /\ UNCHANGED <<client, connVars>>
       ELSE /\ Len(unreferenced) < MaxOrphans
            /\ unreferenced' =
                   Append(unreferenced,
                          [status |-> "connecting", awaited |-> TRUE,
                           quitting |-> quit = "client"])
            /\ quit' = IF quit = "client" THEN "other" ELSE quit
            /\ client' = Obj([status |-> Str("connecting")])
            /\ call' = [op |-> "connect", group |-> "", arg |-> Undefined,
                        err |-> "none", result |-> Undefined]
            /\ UNCHANGED isClosing
    /\ UNCHANGED <<stream, groups, reading, handed, store, proj,
                 httpVars, auth>>

\* connect() from the first of the events ready and error to its end: the
\* client is ready, or it is disconnected and dropped and the error thrown
ConnectSettles(ok) ==
    /\ Get(client, "status") = Str("connecting")
    /\ client' = IF ok THEN Obj([status |-> Str("ready")]) ELSE Null
    /\ quit' = IF ~ok /\ quit = "client" THEN "other" ELSE quit
    /\ call' = [op |-> "connect", group |-> "", arg |-> Undefined,
                err |-> IF ok THEN "none" ELSE ErrClosed,
                result |-> Undefined]
    /\ UNCHANGED <<stream, groups, reading, handed, store, proj, isClosing,
                 unreferenced, httpVars, auth>>

\* the same end of a connect() whose client the module no longer holds: on
\* ready the call returns; on error its catch disconnects and drops the
\* client the module holds now, while its own client goes on retrying
OrphanSettles(i, ok) ==
    /\ i \in DOMAIN unreferenced
    /\ unreferenced[i].status = "connecting"
    /\ unreferenced[i].awaited
    /\ unreferenced' =
           [unreferenced EXCEPT ![i].awaited = FALSE,
                                ![i].status = IF ok THEN "ready"
                                              ELSE "reconnecting"]
    /\ client' = IF ok THEN client ELSE Null
    /\ quit' = IF ~ok /\ quit = "client" THEN "other" ELSE quit
    /\ call' = [op |-> "connect", group |-> "", arg |-> Undefined,
                err |-> IF ok THEN "none" ELSE ErrClosed,
                result |-> Undefined]
    /\ UNCHANGED <<stream, groups, reading, handed, store, proj, isClosing,
                 httpVars, auth>>

\* close() with nothing of connect() or close() between its quit and the
\* answer: quit is answered after the commands sent before it, so it has
\* settled when no read is under way; the client is dropped
Close ==
    /\ reading.pc = "idle"
    /\ ~isClosing
    /\ client' = Null
    /\ call' = [op |-> "close", group |-> "", arg |-> Undefined,
                err |-> "none", result |-> Undefined]
    /\ UNCHANGED <<stream, groups, reading, handed, store, proj, connVars,
                 httpVars, auth>>

\* close() up to its await: nothing while another close() is under way;
\* else the flag is set and quit is sent to the client the module holds
\* (no client of the model is ending or disconnecting), and with no client
\* the call runs to its end
CloseCall ==
    /\ IF isClosing
       THEN /\ call' = [op |-> "close", group |-> "", arg |-> Str("closing"),
                        err |-> "none", result |-> Undefined]
            /\ UNCHANGED <<client, connVars>>
       ELSE IF client # Null
       THEN /\ isClosing' = TRUE
            /\ quit' = "client"
            /\ call' = [op |-> "close", group |-> "", arg |-> Str("quit"),
                        err |-> "none", result |-> Undefined]
            /\ UNCHANGED <<client, unreferenced>>
       ELSE /\ isClosing' = FALSE
            /\ client' = Null
            /\ call' = [op |-> "close", group |-> "", arg |-> Undefined,
                        err |-> "none", result |-> Undefined]
            /\ UNCHANGED <<quit, unreferenced>>
    /\ UNCHANGED <<stream, groups, reading, handed, store, proj,
                 httpVars, auth>>

\* close() from the answer of quit (or its failure, which is only logged) to
\* its end: a client that is connecting answers once it has connected; the
\* client quit was sent to has ended and is gone, the flag is reset and the
\* reference of the module is cleared, whichever client it holds by now
CloseSettles ==
    /\ quit # "none"
    /\ quit = "client" => ~NotReady(client)
    /\ \A i \in DOMAIN unreferenced :
          unreferenced[i].quitting => unreferenced[i].status # "connecting"
    /\ \E ended \in {SelectSeq(unreferenced, LAMBDA c : ~c.quitting)} :
          unreferenced' =
              IF quit = "other" /\ client # Null
              THEN Append(ended,
                          [status |-> IF NotReady(client) THEN "connecting"
                                      ELSE "ready",
                           awaited |-> NotReady(client),
                           quitting |-> FALSE])
              ELSE ended
    /\ isClosing' = FALSE
    /\ client' = Null
    /\ quit' = "none"
    /\ call' = [op |-> "close", group |-> "", arg |-> Undefined,
                err |-> "none", result |-> Undefined]
    /\ UNCHANGED <<stream, groups, reading, handed, store, proj,
                 httpVars, auth>>

\* setData(key, value) called on its own
SetDataCall(key, value, fault) ==
    /\ \E r \in {SetData(store, key, value, fault)} :
          /\ call' = [op |-> "setData", group |-> "",
                      arg |-> Arr(<<key, value>>),
                      err |-> IF r.result # Null THEN "none"
                              ELSE IF NotReady(client) THEN "not ready"
                              ELSE IF key.t # "string" THEN "key"
                              ELSE ErrClosed,
                      result |-> r.result]
          /\ store' = r.store
    /\ UNCHANGED <<client, stream, groups, reading, handed, proj, connVars,
                 httpVars, auth>>

\* getData(key) on the keys kv holds
GetData(kv, key, fault) ==
    IF NotReady(client) THEN [err |-> "not ready", result |-> Null]
    ELSE IF key.t # "string" THEN [err |-> "key", result |-> Null]
    ELSE IF fault THEN [err |-> ErrClosed, result |-> Null]
    ELSE IF key.v \notin DOMAIN kv THEN [err |-> "none", result |-> Null]
    ELSE [err |-> "none", result |-> DecodeStored(kv[key.v])]

GetDataCall(key, fault) ==
    /\ \E r \in {GetData(store, key, fault)} :
          call' = [op |-> "getData", group |-> "", arg |-> key,
                   err |-> r.err, result |-> r.result]
    /\ UNCHANGED <<client, stream, groups, reading, handed, store, proj, connVars,
                 httpVars, auth>>

\* delData(keys): DEL removes the keys that are there and counts them
DelDataCall(keys, fault) ==
    /\ IF NotReady(client)
       THEN /\ call' = [op |-> "delData", group |-> "", arg |-> keys,
                        err |-> "not ready", result |-> Null]
            /\ store' = store
       ELSE IF ~(\/ keys.t = "string"
                 \/ /\ keys.t = "array"
                    /\ \A i \in 1..Len(keys.v) : keys.v[i].t = "string")
       THEN /\ call' = [op |-> "delData", group |-> "", arg |-> keys,
                        err |-> "key", result |-> Null]
            /\ store' = store
       ELSE IF fault
       THEN /\ call' = [op |-> "delData", group |-> "", arg |-> keys,
                        err |-> ErrClosed, result |-> Null]
            /\ store' = store
       ELSE \E gone \in {DOMAIN store \cap IdArgs(keys)} :
               /\ call' = [op |-> "delData", group |-> "", arg |-> keys,
                           err |-> "none", result |-> Num(Cardinality(gone))]
               /\ store' = [k \in DOMAIN store \ gone |-> store[k]]
    /\ UNCHANGED <<client, stream, groups, reading, handed, proj, connVars,
                 httpVars, auth>>

\* the keys and the values setData, getData and delData are called with
StoreKeys == { Str("k"), Str("j"), Num(1) }

StoreValues ==
    { Obj([order |-> Num(7)]), Arr(<<Str("ping")>>), Str("ping"), Num(7),
      Str("7"), Str("{oops") }

\* ------------------------------------------------ authClient (middleware)
\* req.header(name): the text of the header, undefined when it is not there
ReqHeader(req, name) == IF name \in DOMAIN req THEN Str(req[name]) ELSE Undefined

\* a plausible slip: the answer is sent without return, and the function
\* goes on to next()
RejectFallsThrough(error) ==
    [pc |-> "returned", status |-> 401, error |-> error, next |-> TRUE,
     token |-> Undefined]

\* return res.status(401).json({ error })
Reject(error) ==
    [pc |-> "returned", status |-> 401, error |-> error, next |-> FALSE,
     token |-> Undefined]

\* next() with req.token as it is left
PassOn(token) ==
    [pc |-> "returned", status |-> 0, error |-> "", next |-> TRUE,
     token |-> token]

\* a plausible slip: JSON.parse of the headers outside the try block
UserHeadersUnguarded(req) ==
    LET companyRaw == ReqHeader(req, HDR_USER_COMPANY)
        username == ReqHeader(req, HDR_USER_NAME)
        rolesRaw == ReqHeader(req, HDR_USER_ROLES)
        company == IF Truthy(companyRaw) THEN JSONParse(companyRaw.v)
                   ELSE [threw |-> FALSE, value |-> Undefined]
        roles == IF Truthy(rolesRaw) THEN JSONParse(rolesRaw.v)
                 ELSE [threw |-> FALSE, value |-> Arr(<<>>)]
    IN IF ~(Truthy(companyRaw) \/ Truthy(username) \/ Truthy(rolesRaw))
       THEN Reject("Faltan Headers de datos del usuario")
       ELSE IF company.threw \/ roles.threw
       THEN [pc |-> "threw", status |-> 0, error |-> "SyntaxError",
             next |-> FALSE, token |-> Undefined]
       ELSE PassOn(Obj([company |-> company.value, username |-> username,
                        roles |-> roles.value]))

\* the else branch of authClient: the headers of the user are read, parsed
\* and put on the request as req.token
UserHeaders(req) ==
    LET companyRaw == ReqHeader(req, HDR_USER_COMPANY)
        username == ReqHeader(req, HDR_USER_NAME)
        rolesRaw == ReqHeader(req, HDR_USER_ROLES)
        company == IF Truthy(companyRaw) THEN JSONParse(companyRaw.v)
                   ELSE [threw |-> FALSE, value |-> Undefined]
        roles == IF Truthy(rolesRaw) THEN JSONParse(rolesRaw.v)
                 ELSE [threw |-> FALSE, value |-> Arr(<<>>)]
    IN IF ~(Truthy(companyRaw) \/ Truthy(username) \/ Truthy(rolesRaw))
       THEN Reject("Faltan Headers de datos del usuario")
       ELSE IF company.threw \/ roles.threw
       THEN Reject("Error al parsear el header X-User-Company o X-User-Roles como JSON")
       ELSE PassOn(Obj([company |-> company.value, username |-> username,
                        roles |-> roles.value]))

\* a plausible slip: the source type is looked at before the internal header
AuthOutcomeSourceFirst(req, token) ==
    IF ReqHeader(req, HDR_SOURCE_TYPE) = Str(WEBHOOK_SOURCE_TYPE)
    THEN PassOn(Undefined)
    ELSE IF ReqHeader(req, HDR_INTERNAL_REQUEST) # token
    THEN Reject("No se ha recibido el header de autenticacion o es incorrecto")
    ELSE UserHeaders(req)

\* a plausible slip: the headers of the user are asked of every request
AuthOutcomeNoWebhooks(req, token) ==
    IF ReqHeader(req, HDR_INTERNAL_REQUEST) # token
    THEN Reject("No se ha recibido el header de autenticacion o es incorrecto")
    ELSE UserHeaders(req)

\* authClient(req, res, next, token): how it ends, what it answers, whether
\* it calls next and what it leaves in req.token
AuthOutcome(req, token) ==
    IF ReqHeader(req, HDR_INTERNAL_REQUEST) # token
    THEN Reject("No se ha recibido el header de autenticacion o es incorrecto")
    ELSE IF /\ Truthy(ReqHeader(req, HDR_SOURCE_TYPE))
            /\ ReqHeader(req, HDR_SOURCE_TYPE) = Str(WEBHOOK_SOURCE_TYPE)
    THEN PassOn(Undefined)
    ELSE UserHeaders(req)

NoAuth == [req |-> <<>>, expected |-> Undefined, outcome |-> PassOn(Undefined)]

AuthClient(req, token) ==
    /\ auth' = [req |-> req, expected |-> token,
                outcome |-> AuthOutcome(req, token)]
    /\ UNCHANGED <<httpVars, redisVars>>

\* the headers of a request configuration as the receiving service reads
\* them with req.header: each header by its name, its value as text
Wire(config) ==
    [h \in DOMAIN Get(config, "headers").v |->
        TemplateText(Get(config, "headers").v[h])]

\* the request internalApiClient has put on the wire reaches the service,
\* whose authClient is called with the token the service expects
Receive(token) ==
    /\ disp.pc = "sent"
    /\ auth' = [req |-> Wire(disp.config), expected |-> token,
                outcome |-> AuthOutcome(Wire(disp.config), token)]
    /\ UNCHANGED <<httpVars, redisVars>>

\* the token the service expects in the internal header
ServiceTokens == { Str("s3cret") }

\* the headers a request carries, by name: a header is not there, or has one
\* of the texts
HeaderTexts ==
    [ internal |-> {"", "s3cret", "wrong"},
      source |-> {"", WEBHOOK_SOURCE_TYPE, "api"},
      company |-> {"", JSONStringify(Obj([id |-> Str("T1")])), "{oops"},
      username |-> {"", "ana"},
      roles |-> {"", JSONStringify(Arr(<<Str("admin")>>)), "admin,"} ]

\* the requests authClient is called with; "" in the choice of a text stands
\* for the header that is not there
AuthRequests ==
    { [ h \in { n \in { HDR_INTERNAL_REQUEST, HDR_SOURCE_TYPE,
                        HDR_USER_COMPANY, HDR_USER_NAME, HDR_USER_ROLES } :
                  ( CASE n = HDR_INTERNAL_REQUEST -> i
                      [] n = HDR_SOURCE_TYPE -> s
                      [] n = HDR_USER_COMPANY -> c
                      [] n = HDR_USER_NAME -> u
                      [] OTHER -> r ) # "" } |->
          CASE h = HDR_INTERNAL_REQUEST -> i
            [] h = HDR_SOURCE_TYPE -> s
            [] h = HDR_USER_COMPANY -> c
            [] h = HDR_USER_NAME -> u
            [] OTHER -> r ] :
        i \in HeaderTexts.internal, s \in HeaderTexts.source,
        c \in HeaderTexts.company, u \in HeaderTexts.username,
        r \in HeaderTexts.roles }

\* ---------------------------------------------------------- specification
Init ==
    /\ services = Null
    /\ loaders = [l \in Loaders |-> IdleLoader]
    /\ latest = [by |-> "none", doc |-> Undefined]
    /\ reader = IdleReader
    /\ disp = IdleDispatch
    /\ netCalls = 0
    /\ client = Null
    /\ stream = [k \in StreamKeys |-> [entries |-> <<>>, lastId |-> 0]]
    /\ groups = [k \in StreamKeys |-> [g \in GroupNames |-> NoGroup]]
    /\ reading = IdleRead
    /\ call = NoCall
    /\ handed = [g \in GroupNames |-> {}]
    /\ store = <<>>
    /\ proj = NoProjection
    /\ isClosing = FALSE
    /\ quit = "none"
    /\ unreferenced = <<>>
    /\ auth = NoAuth

\* Documents the registry is loaded from while requests are dispatched: the
\* source failing, and two documents that between them hold every kind of
\* descriptor, with the complete one first in one and last in the other.
DispatchSources ==
    { [threw |-> TRUE, doc |-> Undefined],
      [threw |-> FALSE, doc |-> Obj([services |-> Arr(<<
          Obj([serviceName |-> Str("billing"), host |-> Str("10.0.0.5"),
               port |-> Num(8080), token |-> Str("abc")]),
          Obj([serviceName |-> Str("users"), host |-> Str("10.0.0.6"),
               port |-> Num(3000)]),
          Obj([serviceName |-> Str("mail"), host |-> Str("10.0.0.7"),
               port |-> Num(0), token |-> Str("mno")]),
          Obj([serviceName |-> Str("audit"), port |-> Num(9000),
               token |-> Str("pqr")]) >>)])],
      [threw |-> FALSE, doc |-> Obj([services |-> Arr(<<
          Obj([serviceName |-> Str("users"), host |-> Str("10.0.0.6"),
               port |-> Num(3000), token |-> Str("")]),
          Obj([serviceName |-> Str("ledger")]),
          Obj([serviceName |-> Str("billing"), host |-> Str("10.0.0.9"),
               port |-> Num(9090), token |-> Str("xyz")]) >>)])] }

\* the registry on its own: a boot task and a refresh task call loadConfig
\* concurrently, over every document
NextRegistry ==
    \/ \E n \in LoadArgs : LoadConfigCall("boot", n)
    \/ LoadConfigCall("refresh", Undefined)
    \/ \E l \in Loaders, r \in FindOneResults : LoadConfigResume(l, r)
    \/ \E n \in LoadArgs : LoadConfigNoConnection("boot", n)
    \/ LoadConfigNoConnection("refresh", Undefined)

SpecRegistry == Init /\ [][NextRegistry]_vars

\* The snapshot and its readers: two tasks reload concurrently while a
\* caller reads the snapshot at any moment.  The source fails, has no
\* document, has an empty or a malformed list, or has one of the lists that
\* begin with the billing service, which share descriptors with each other.
SnapshotSources ==
    { [threw |-> TRUE, doc |-> Undefined],
      [threw |-> FALSE, doc |-> Null],
      [threw |-> FALSE, doc |-> Obj([services |-> Arr(<<>>)])],
      [threw |-> FALSE, doc |-> Obj([services |-> Arr(<<Null>>)])] }
    \cup { [threw |-> FALSE, doc |-> Obj([services |-> Arr(seq)])] :
             seq \in { s \in ServiceLists :
                         Get(s[1], "serviceName") = Str("billing") } }

NextSnapshot ==
    \/ \E l \in Loaders : LoadConfigCall(l, Undefined)
    \/ \E l \in Loaders, r \in SnapshotSources : LoadConfigResume(l, r)
    \/ \E l \in Loaders : LoadConfigNoConnection(l, Undefined)
    \/ ReadSnapshot

SpecSnapshot == Init /\ [][NextSnapshot]_vars

\* the dispatcher, with the registry reloaded at any moment by one task
Next ==
    \/ LoadConfigCall("refresh", Undefined)
    \/ \E r \in DispatchSources : LoadConfigResume("refresh", r)
    \/ LoadConfigNoConnection("refresh", Undefined)
    \/ \E req \in Requests : Dispatch(req)
    \/ \E o \in NetOutcomes : Respond(o)

Spec == Init /\ [][Next]_vars

\* Dispatcher and receiver: the requests of Spec while the registry is
\* loaded and reloaded, each received by a service that expects the token of
\* one of the descriptors of billing, or a token no descriptor has.  What
\* the service answers after authClient is not followed: the call ends
\* without a response.
NextEndToEnd ==
    \/ LoadConfigCall("refresh", Undefined)
    \/ \E r \in DispatchSources : LoadConfigResume("refresh", r)
    \/ \E req \in Requests : Dispatch(req)
    \/ Respond([response |-> Undefined])
    \/ \E token \in {Str("abc"), Str("xyz"), Str("s3cret")} : Receive(token)

SpecEndToEnd == Init /\ [][NextEndToEnd]_vars

\* The stream channel: callers set up groups, publish, read and acknowledge
\* in any order, before and after connect(), and any command may be
\* rejected by Redis.  The group workers is used in every way; the group
\* audit is there to be set up, read in batches and acknowledged in lists
\* next to it.
NextChannel ==
    \/ Connect
    \/ \E k \in StreamKeys, fault \in BOOLEAN :
          SetupStreamGroup(k, "workers", fault)
    \/ \E k \in StreamKeys : SetupStreamGroup(k, "audit", FALSE)
    \/ \E k \in StreamKeys, m \in Payloads, fault \in BOOLEAN :
          PublishToStream(k, m, fault)
    \/ \E k \in StreamKeys, ids \in AckArgs, fault \in BOOLEAN :
          AckStreamMessage(k, "workers", ids, fault)
    \/ \E k \in StreamKeys :
          AckStreamMessage(k, "audit",
                           Arr(<<Str(IdText(1)), Str(IdText(2))>>), FALSE)
    \/ \E k \in StreamKeys, c \in Consumers, o \in ReadOptions :
          ReadCall(k, "workers", c, o)
    \/ \E k \in StreamKeys :
          ReadCall(k, "audit", "c1", Obj([block |-> Num(250), count |-> Num(2)]))
    \/ \E k \in StreamKeys, fault \in BOOLEAN : ReadSettles(k, fault)

SpecChannel == Init /\ [][NextChannel]_vars

\* The channel while Redis stays available and the consumers of the group
\* workers keep reading: no command is rejected, a call of
\* readFromStreamGroup is made whenever none is under way, and Redis
\* answers the command that is under way.
NextDelivery ==
    \/ Connect
    \/ \E k \in StreamKeys : SetupStreamGroup(k, "workers", FALSE)
    \/ \E k \in StreamKeys, m \in Payloads : PublishToStream(k, m, FALSE)
    \/ \E k \in StreamKeys, ids \in AckArgs :
          AckStreamMessage(k, "workers", ids, FALSE)
    \/ \E k \in StreamKeys, c \in Consumers, o \in ReadOptions :
          ReadCall(k, "workers", c, o)
    \/ \E k \in StreamKeys : ReadSettles(k, FALSE)

\* The channel with a second producer on the stream, whose entries
\* readFromStreamGroup cannot decode; no command is rejected.
NextBatch ==
    \/ Connect
    \/ \E k \in StreamKeys : SetupStreamGroup(k, "workers", FALSE)
    \/ \E k \in StreamKeys, m \in Payloads : PublishToStream(k, m, FALSE)
    \/ \E k \in StreamKeys, fields \in ForeignFields : ForeignAdd(k, fields)
    \/ \E k \in StreamKeys, ids \in AckArgs :
          AckStreamMessage(k, "workers", ids, FALSE)
    \/ \E k \in StreamKeys, c \in Consumers, o \in ReadOptions :
          ReadCall(k, "workers", c, o)
    \/ \E k \in StreamKeys : ReadSettles(k, FALSE)

SpecBatch == Init /\ [][NextBatch]_vars

\* The projector: company settings are saved and single channels updated,
\* before and after connect(), with Redis rejecting some of the writes.
NextProjector ==
    \/ Connect
    \/ \E company \in Companies, faults \in FaultPatterns :
          SaveCompanySettingInRedis(company, faults)
    \/ \E company \in Companies, channel \in Channels :
          UpdateCompanyIndexForChannelInRedis(company, channel, {})
    \/ \E company \in Companies :
          UpdateCompanyIndexForChannelInRedis(company, Str(metaChannels.MESSENGER),
                                              {metaChannels.MESSENGER})

SpecProjector == Init /\ [][NextProjector]_vars

\* The keys of Redis: values are set, read and deleted before and after
\* connect() and close(), with Redis rejecting some commands.
NextStore ==
    \/ ConnectCall
    \/ \E ok \in BOOLEAN : ConnectSettles(ok)
    \/ Close
    \/ \E key \in StoreKeys, value \in StoreValues, fault \in BOOLEAN :
          SetDataCall(key, value, fault)
    \/ \E key \in StoreKeys, fault \in BOOLEAN : GetDataCall(key, fault)
    \/ \E keys \in StoreKeys \cup {Arr(<<Str("k"), Str("j")>>)},
          fault \in BOOLEAN : DelDataCall(keys, fault)

SpecStore == Init /\ [][NextStore]_vars

\* Every operation of the store and of the streams, before connect(), while
\* it connects, after it failed and after close().
NextLifecycle ==
    \/ ConnectCall
    \/ \E ok \in BOOLEAN : ConnectSettles(ok)
    \/ Close
    \/ SetDataCall(Str("k"), Str("ping"), FALSE)
    \/ GetDataCall(Str("k"), FALSE)
    \/ DelDataCall(Str("k"), FALSE)
    \/ \E k \in StreamKeys : SetupStreamGroup(k, "workers", FALSE)
    \/ \E k \in StreamKeys : PublishToStream(k, Str("ping"), FALSE)
    \/ \E k \in StreamKeys :
          AckStreamMessage(k, "workers", Str(IdText(1)), FALSE)
    \/ \E k \in StreamKeys :
          ReadCall(k, "workers", "c1", Obj([block |-> Num(250)]))
    \/ \E k \in StreamKeys : ReadSettles(k, FALSE)

SpecLifecycle == Init /\ [][NextLifecycle]_vars

\* connect() and close() called at any time, each resumed whenever its
\* client has answered.
NextConnection ==
    \/ ConnectCall
    \/ ConnectAgain
    \/ \E ok \in BOOLEAN : ConnectSettles(ok)
    \/ \E i \in 1..(MaxOrphans + 1), ok \in BOOLEAN : OrphanSettles(i, ok)
    \/ CloseCall
    \/ CloseSettles

SpecConnection == Init /\ [][NextConnection]_vars

\* The middleware: requests arrive with and without each of the headers.
NextAuth ==
    \E req \in AuthRequests, token \in ServiceTokens : AuthClient(req, token)

SpecAuth == Init /\ [][NextAuth]_vars

SpecDelivery ==
    /\ Init
    /\ [][NextDelivery]_vars
    /\ WF_vars(\E k \in StreamKeys, c \in Consumers, o \in ReadOptions :
                  ReadCall(k, "workers", c, o))
    /\ WF_vars(\E k \in StreamKeys : ReadSettles(k, FALSE))

\* ------------------------------------------------------ claims C1 .. C10
\* Throughout, a property of a descriptor or of the caller identity "is
\* present" when the code's test on it succeeds, that is when its value is
\* truthy; undefined, null, "" and 0 count as absent.

Headers(config) == Get(config, "headers")
IdentityHeaders == {HDR_USER_COMPANY, HDR_USER_NAME, HDR_USER_ROLES}
ErrorOf(message) == Obj([message |-> Str(message)])

\* the positions in the snapshot "all" of descriptors named "name"
Named(all, name) ==
    IF all.t = "array" /\ Truthy(name)
    THEN { i \in 1..Len(all.v) : Get(all.v[i], "serviceName") = name }
    ELSE {}

\* the message of the first precondition of a dispatch that does not hold
\* when request req meets snapshot all; "" when all of them hold
FirstFailure(req, all) ==
    LET at == Named(all, Get(req, "serviceName"))
    IN IF all.t # "array" \/ Len(all.v) = 0 THEN ErrNoServices
       ELSE IF at = {} THEN ErrNotFound
       ELSE LET d == all.v[CHOOSE i \in at : TRUE]
            IN IF ~Truthy(Get(d, "host")) \/ ~Truthy(Get(d, "port"))
               THEN ErrNoHostPort
               ELSE IF ~Truthy(Get(d, "token")) THEN ErrNoToken ELSE ""

\* C1: for every descriptor of the snapshot that has host, port and token, a
\* dispatch naming it is sent to "http://{host}:{port}" followed by the
\* relative path and carries X-Internal-Request equal to the descriptor's
\* token.
C1_CallGoesToBaseUrlPlusPath ==
    disp.pc # "idle" =>
        \A i \in Named(disp.allServices, Get(disp.req, "serviceName")) :
            LET d == disp.allServices.v[i]
            IN (/\ Truthy(Get(d, "host"))
                /\ Truthy(Get(d, "port"))
                /\ Truthy(Get(d, "token")))
               => /\ disp.calls = 1
                  /\ FullUrl(disp.config) =
                        "http://" \o TemplateText(Get(d, "host")) \o ":"
                        \o TemplateText(Get(d, "port"))
                        \o Get(disp.req, "url").v
                  /\ Get(Headers(disp.config), HDR_INTERNAL_REQUEST)
                        = Get(d, "token")

\* the scenario of the claim: billing at 10.0.0.5:8080 with token abc
C1_Witness ==
    /\ disp.pc = "sent"
    /\ Get(disp.req, "serviceName") = Str("billing")
    /\ FullUrl(disp.config) = "http://10.0.0.5:8080/invoices"
    /\ Get(Headers(disp.config), HDR_INTERNAL_REQUEST) = Str("abc")

\* C2: a dispatch whose target descriptor has no token fails and makes no
\* network call (with the missing-token error when host and port are
\* there), and every request that is sent carries X-Internal-Request set to
\* the token of the target descriptor.
C2_NoRequestWithoutTrustHeader ==
    disp.pc # "idle" =>
        /\ \A i \in Named(disp.allServices, Get(disp.req, "serviceName")) :
              LET d == disp.allServices.v[i]
              IN ~Truthy(Get(d, "token")) =>
                    /\ disp.pc = "rejected"
                    /\ disp.calls = 0
                    /\ disp.config = Undefined
                    /\ (Truthy(Get(d, "host")) /\ Truthy(Get(d, "port"))
                          => disp.result = ErrorOf(ErrNoToken))
        /\ disp.calls = 1 =>
              /\ Truthy(Get(Headers(disp.config), HDR_INTERNAL_REQUEST))
              /\ \E i \in Named(disp.allServices,
                                Get(disp.req, "serviceName")) :
                    Get(Headers(disp.config), HDR_INTERNAL_REQUEST)
                        = Get(disp.allServices.v[i], "token")

C2_Witness ==
    /\ disp.pc = "rejected"
    /\ disp.calls = 0
    /\ Get(disp.req, "serviceName") = Str("users")
    /\ disp.result = ErrorOf(ErrNoToken)

\* C3: with a non-empty snapshot, a dispatch whose target name (an absent
\* name included) matches no descriptor fails with the unknown-service
\* error and makes no network call.
C3_UnknownServiceFails ==
    (/\ disp.pc # "idle"
     /\ disp.allServices.t = "array"
     /\ Len(disp.allServices.v) > 0
     /\ \A i \in 1..Len(disp.allServices.v) :
           Get(disp.allServices.v[i], "serviceName")
               # Get(disp.req, "serviceName"))
    => /\ disp.pc = "rejected"
       /\ disp.result = ErrorOf(ErrNotFound)
       /\ disp.calls = 0
       /\ disp.config = Undefined

C3_Witness ==
    /\ disp.pc = "rejected"
    /\ Get(disp.req, "serviceName") = Str("ghost")
    /\ disp.allServices.t = "array"
    /\ disp.result = ErrorOf(ErrNotFound)
    /\ disp.calls = 0

\* C4: a dispatch fails at the first precondition that does not hold, in the
\* order snapshot loaded, descriptor found, host and port present, token
\* present, and then makes no network call; it is sent when all hold.  The
\* snapshot is empty before the first reload and after a failed one, so a
\* dispatch then fails with the no-configuration error.
C4_PreconditionsInOrder ==
    /\ disp.pc # "idle" =>
          LET e == FirstFailure(disp.req, disp.allServices)
          IN IF e = ""
             THEN disp.calls = 1 /\ disp.config # Undefined
             ELSE /\ disp.pc = "rejected"
                  /\ disp.result = ErrorOf(e)
                  /\ disp.calls = 0
                  /\ disp.config = Undefined
    /\ loaders["refresh"].pc \in {"idle", "threw"} => servicesConfig = Null

\* a descriptor that lacks host, port and token fails on host and port
C4_Witness ==
    /\ disp.pc = "rejected"
    /\ Get(disp.req, "serviceName") = Str("ledger")
    /\ disp.result = ErrorOf(ErrNoHostPort)
    /\ \E i \in Named(disp.allServices, Str("ledger")) :
          ~Truthy(Get(disp.allServices.v[i], "token"))

\* C5: a webhook dispatch carries X-Source-Type: webhook and the dispatcher
\* attaches no identity header to it (each identity header is as the caller
\* left it), also when the caller identity is fully populated.
C5_WebhookCarriesNoIdentity ==
    (disp.calls = 1 /\ Get(disp.req, "sourceType") = Str(WEBHOOK_SOURCE_TYPE))
    => /\ Get(Headers(disp.config), HDR_SOURCE_TYPE)
             = Str(WEBHOOK_SOURCE_TYPE)
       /\ \A h \in IdentityHeaders :
             Get(Headers(disp.config), h) = Get(Headers(disp.req), h)

C5_Witness ==
    /\ disp.pc = "sent"
    /\ Get(disp.req, "sourceType") = Str(WEBHOOK_SOURCE_TYPE)
    /\ Get(disp.req, "tokenContext") = FullContext
    /\ Get(Headers(disp.config), HDR_SOURCE_TYPE) = Str(WEBHOOK_SOURCE_TYPE)
    /\ \A h \in IdentityHeaders : Get(Headers(disp.config), h) = Undefined

\* the JSON text of the identity values the requests carry
JsonText(x) ==
    CASE x.t = "object" -> "{\"id\":\"c1\"}"
      [] x.t = "array" /\ Len(x.v) = 0 -> "[]"
      [] OTHER -> "[\"admin\",\"user\"]"

\* C6: on a dispatch that is not a webhook call, each of company, username
\* and roles that is present in the caller identity is attached as its own
\* header, company and roles as JSON text and username as it is; each one
\* that is absent leaves its header as the caller left it; the source-type
\* header is not attached.
C6_IdentityHeadersWhenPresent ==
    (disp.calls = 1 /\ Get(disp.req, "sourceType") # Str(WEBHOOK_SOURCE_TYPE))
    => LET tc == Get(disp.req, "tokenContext")
           present(k) == Truthy(tc) /\ Truthy(Get(tc, k))
           before(h) == Get(Headers(disp.req), h)
           after(h) == Get(Headers(disp.config), h)
       IN /\ after(HDR_USER_COMPANY) =
                IF present("company")
                THEN Str(JsonText(Get(tc, "company")))
                ELSE before(HDR_USER_COMPANY)
          /\ after(HDR_USER_NAME) =
                IF present("username") THEN Get(tc, "username")
                ELSE before(HDR_USER_NAME)
          /\ after(HDR_USER_ROLES) =
                IF present("roles")
                THEN Str(JsonText(Get(tc, "roles")))
                ELSE before(HDR_USER_ROLES)
          /\ after(HDR_SOURCE_TYPE) = before(HDR_SOURCE_TYPE)

\* only the roles are present: one identity header, no marker
C6_Witness ==
    /\ disp.pc = "sent"
    /\ Get(disp.req, "sourceType") = Undefined
    /\ Get(disp.req, "tokenContext")
          = Obj([roles |-> Arr(<<Str("admin"), Str("user")>>)])
    /\ Get(Headers(disp.config), HDR_USER_ROLES)
          = Str("[\"admin\",\"user\"]")
    /\ Get(Headers(disp.config), HDR_USER_COMPANY) = Undefined
    /\ Get(Headers(disp.config), HDR_USER_NAME) = Undefined
    /\ Get(Headers(disp.config), HDR_SOURCE_TYPE) = Undefined

\* the network call failed: no response, or a status outside 2xx
CallFailed ==
    /\ disp.pc \in {"resolved", "rejected"}
    /\ disp.config # Undefined
    /\ \/ disp.outcome = Undefined
       \/ Get(disp.outcome, "status").v < 200
       \/ Get(disp.outcome, "status").v >= 300

\* C7: when the network call fails, at transport level or with a status
\* outside 2xx, the caller's promise is rejected, never resolved; the error
\* carries the request configuration (hence the target URL) and the
\* response with its status and body when there is one; one physical call
\* was made for the dispatch.
C7_FailureReachesCaller ==
    CallFailed =>
        /\ disp.pc = "rejected"
        /\ Get(disp.result, "config") = disp.config
        /\ FullUrl(Get(disp.result, "config")) = FullUrl(disp.config)
        /\ Get(disp.result, "response") = disp.outcome
        /\ disp.calls = 1

C7_Witness ==
    /\ CallFailed
    /\ disp.pc = "rejected"
    /\ FullUrl(Get(disp.result, "config")) = "http://10.0.0.5:8080/invoices"
    /\ Get(Get(disp.result, "response"), "status") = Num(404)
    /\ Get(Get(disp.result, "response"), "data") = Str("not found")

\* C8: a step of a dispatch leaves the registry snapshot and the loadConfig
\* calls as they are, and every dispatch that passes the preconditions adds
\* one physical call, also when it repeats the request sent just before; a
\* dispatch that fails them adds none and the answer to a call adds none.
C8_DispatchMutatesNothing ==
    [][disp' # disp =>
          /\ services' = services
          /\ loaders' = loaders
          /\ netCalls' =
                IF disp.pc # "sent" /\ FirstFailure(disp'.req, services) = ""
                THEN netCalls + 1
                ELSE netCalls]_vars

\* the same request sent twice in a row: two physical calls
C8_Witness ==
    /\ disp.again
    /\ disp.pc = "sent"
    /\ netCalls = 2
    /\ services = disp.allServices

\* the document holds a usable service list: a non-empty array of objects
UsableList(doc) ==
    /\ doc.t = "object"
    /\ Get(doc, "services").t = "array"
    /\ Len(Get(doc, "services").v) > 0
    /\ \A i \in 1..Len(Get(doc, "services").v) :
          Get(doc, "services").v[i].t = "object"

\* loadConfig call l comes to its end in this step
ReloadEnds(l) ==
    /\ loaders'[l] # loaders[l]
    /\ loaders'[l].pc \in {"returned", "threw"}

\* C9: a reload that read a usable service list returns normally and leaves
\* a snapshot with one descriptor per listed service, in the order of the
\* list, each with the properties it had and with serviceUrl equal to
\* "http://{host}:{port}" when host and port are both present and null when
\* either is missing.
C9_DerivedBaseAddress ==
    [][\A l \in Loaders :
          (ReloadEnds(l) /\ UsableList(loaders'[l].configDoc)) =>
              LET list == Get(loaders'[l].configDoc, "services").v
              IN /\ loaders'[l].pc = "returned"
                 /\ services'.t = "array"
                 /\ Len(services'.v) = Len(list)
                 /\ \A i \in 1..Len(list) :
                       LET d == services'.v[i]
                       IN /\ DOMAIN d.v = DOMAIN list[i].v \cup {"serviceUrl"}
                          /\ \A k \in DOMAIN list[i].v : d.v[k] = list[i].v[k]
                          /\ Get(d, "serviceUrl") =
                                IF /\ Truthy(Get(d, "host"))
                                   /\ Truthy(Get(d, "port"))
                                THEN Str("http://"
                                         \o TemplateText(Get(d, "host")) \o ":"
                                         \o TemplateText(Get(d, "port")))
                                ELSE Null]_vars

\* a list of a complete descriptor and one without host: both are kept
C9_Witness ==
    /\ loaders["boot"].pc = "returned"
    /\ services.t = "array"
    /\ Len(services.v) = 2
    /\ Get(services.v[1], "serviceUrl") = Str("http://10.0.0.5:8080")
    /\ Get(services.v[2], "serviceName") = Str("audit")
    /\ Get(services.v[2], "host") = Undefined
    /\ Get(services.v[2], "serviceUrl") = Null

\* C10: a reload whose source is unreachable, missing or without a service
\* list clears the snapshot, logs a warning or an error and returns to its
\* caller with no descriptor.
C10_FailedReloadReturnsNothing ==
    [][\A l \in Loaders :
          (ReloadEnds(l) /\ ~UsableList(loaders'[l].configDoc)) =>
              /\ services' = Null
              /\ loaders'[l].log \in {"warn", "error"}
              /\ loaders'[l].pc = "returned"
              /\ loaders'[l].value = Undefined]_vars

\* ------------------------------------------------------ claims C11 .. C20
\* snapshot is what a loadConfig call that read doc leaves behind: nothing
\* when doc has no usable list, otherwise one descriptor for each listed
\* service, in the order of the list, with every property the listed
\* service has
ProducedBy(snapshot, doc) ==
    IF UsableList(doc)
    THEN LET list == Get(doc, "services").v
         IN /\ snapshot.t = "array"
            /\ Len(snapshot.v) = Len(list)
            /\ \A i \in 1..Len(list) :
                  /\ snapshot.v[i].t = "object"
                  /\ \A k \in DOMAIN list[i].v :
                        /\ k \in DOMAIN snapshot.v[i].v
                        /\ snapshot.v[i].v[k] = list[i].v[k]
    ELSE snapshot = Null

\* C11: with loadConfig calls and readers interleaved in any way, the value
\* servicesConfig() returns, and every value a reader holds, is empty or is
\* the whole list built from the one document a single loadConfig call
\* read; no step of a loadConfig call changes a value a reader holds.
C11_SnapshotIsOneWholeLoad ==
    /\ [](/\ ProducedBy(servicesConfig, latest.doc)
          /\ (reader.pc = "holding") =>
                 ProducedBy(reader.value, reader.of))
    /\ [][(\E l \in Loaders : loaders'[l] # loaders[l]) =>
              reader' = reader]_vars

\* a reader holds a two-service list while one reload is in flight and the
\* other has since replaced the snapshot by a different list
C11_Witness ==
    /\ reader.pc = "holding"
    /\ reader.value.t = "array"
    /\ Len(reader.value.v) = 2
    /\ loaders["boot"].pc = "awaiting"
    /\ latest.by = "refresh"
    /\ services.t = "array"
    /\ services # reader.value

\* C12: servicesConfig() returns what the loadConfig call that ended last
\* left behind, and null while none has ended; a read starts no loadConfig
\* call and leaves the snapshot as it is; the snapshot changes only in the
\* step that ends a loadConfig call.
C12_ReadReturnsLatestLoad ==
    /\ [](IF latest.by = "none"
          THEN servicesConfig = Null
          ELSE ProducedBy(servicesConfig, latest.doc))
    /\ [][/\ (reader' # reader) =>
                 /\ reader'.value = servicesConfig
                 /\ services' = services
                 /\ loaders' = loaders
                 /\ latest' = latest
          /\ (services' # services) =>
                 \E l \in Loaders :
                     /\ loaders'[l].pc \in {"returned", "threw"}
                     /\ latest' = [by |-> l, doc |-> loaders'[l].configDoc]
                     /\ reader' = reader]_vars

\* both tasks have reloaded, boot last and from another document than
\* refresh; the reader then read the list boot left
C12_Witness ==
    /\ reader.pc = "holding"
    /\ reader.value = services
    /\ services.t = "array"
    /\ latest.by = "boot"
    /\ loaders["refresh"].pc = "returned"
    /\ loaders["refresh"].configDoc # latest.doc
    /\ ProducedBy(services, latest.doc)
    /\ ~ProducedBy(services, loaders["refresh"].configDoc)

\* entry n is in the stream and the group has not delivered it
Awaits(group, n) ==
    /\ groups["orders"][group].exists
    /\ n > groups["orders"][group].last
    /\ \E i \in 1..Len(stream["orders"].entries) :
          stream["orders"].entries[i].id = n

\* C13: while Redis stays available and consumers of the group keep calling
\* readFromStreamGroup, every entry published to the stream after the group
\* was set up is in the end returned by a readFromStreamGroup call of the
\* group.
C13_EveryMessageIsHandedOver ==
    \A n \in 1..MaxMsgs :
        Awaits("workers", n) ~> (IdText(n) \in handed["workers"])

\* the first entry was published before the group was set up and the second
\* after: only the second has been handed over
C13_Witness ==
    /\ Len(stream["orders"].entries) = 2
    /\ handed["workers"] = {IdText(2)}
    /\ groups["orders"]["workers"].last = 2
    /\ call.op = "readFromStreamGroup"
    /\ call.result.t = "array"
    /\ Len(call.result.v) = 1

\* the step in which the readFromStreamGroup call under way ends
ReadEnds ==
    /\ reading.pc = "blocked"
    /\ reading'.pc = "idle"
    /\ call'.op = "readFromStreamGroup"

\* the ids of the entries in a result of readFromStreamGroup
IdsIn(result) ==
    IF result.t = "array"
    THEN { Get(result.v[i], "id").v : i \in 1..Len(result.v) }
    ELSE {}

\* C14: when the call that ended last is a publish that returned an id, and
\* the group had delivered everything before it and has nothing pending, a
\* readFromStreamGroup call that Redis answers returns one entry, with the
\* id publish returned and the payload that was published; and no call
\* returns an entry the group has handed over before, acknowledged or not.
C14_PublishedIsReadOnce ==
    [][ReadEnds =>
          LET g == reading.group
              grp == groups["orders"][g]
          IN /\ ( /\ call.op = "publishToStream"
                  /\ call.result.t = "string"
                  /\ grp.exists
                  /\ grp.pending = {}
                  /\ IdText(grp.last + 1) = call.result.v
                  /\ call'.err = "none" ) =>
                     call'.result =
                        Arr(<< Obj([id |-> call.result,
                                    payload |-> call.arg]) >>)
             /\ IdsIn(call'.result) \cap handed[g] = {}]_vars

\* the first entry was read and acknowledged, the second was published and
\* read after that: the read returned the second entry alone
C14_Witness ==
    /\ call.op = "readFromStreamGroup"
    /\ call.group = "workers"
    /\ IdsIn(call.result) = {IdText(2)}
    /\ call.arg = Num(2)
    /\ Get(call.result.v[1], "payload") = Str("ping")
    /\ handed["workers"] = {IdText(1), IdText(2)}
    /\ groups["orders"]["workers"].pending = {2}

\* C15: a readFromStreamGroup call on a group with no undelivered entry
\* waits a block time that is not 0 (which would be no limit) and, when it
\* ends without an error of Redis, returns the empty list and changes no
\* group; a call that Redis rejects returns null, never a list; so the
\* empty list is returned only when nothing was rejected.
C15_TimeoutIsNotFailure ==
    /\ [](reading.pc = "blocked" => reading.block > 0)
    /\ [][ReadEnds =>
             LET grp == groups["orders"][reading.group]
             IN /\ call'.err # "none" => call'.result = Null
                /\ call'.err = "none" =>
                       /\ call'.result.t = "array"
                       /\ (call'.result = Arr(<<>>)) <=>
                              (Undelivered(stream["orders"], grp) = <<>>)
                       /\ (call'.result = Arr(<<>>)) => groups' = groups]_vars

\* both entries of the stream were delivered before; the call found nothing
\* new and returned the empty list
C15_Witness ==
    /\ call.op = "readFromStreamGroup"
    /\ call.group = "workers"
    /\ call.err = "none"
    /\ call.result = Arr(<<>>)
    /\ Len(stream["orders"].entries) = 2
    /\ groups["orders"]["workers"].last = 2
    /\ handed["workers"] = {IdText(1), IdText(2)}

\* the step in which a call of the stream function op ends
CallEnds(op) == call' # call /\ call'.op = op

\* C16: on a ready connection setupStreamGroup returns true when Redis
\* creates the group and when Redis rejects the command because the group
\* exists, and false on every other rejection; a call for a group that
\* exists leaves its delivery position and its pending list as they are,
\* and no call changes the other group or the stream.
C16_SetupIsIdempotent ==
    [][(CallEnds("setupStreamGroup") /\ ~NotReady(client)) =>
          LET g == call'.group
              grp == groups["orders"][g]
          IN /\ call'.result =
                   Bool(call'.err \in {"none", ErrBusyGroup})
             /\ call'.err = "none" =>
                   /\ ~grp.exists
                   /\ groups'["orders"][g] =
                         [exists |-> TRUE, last |-> stream["orders"].lastId,
                          pending |-> {}]
             /\ call'.err = ErrBusyGroup => grp.exists
             /\ grp.exists =>
                   /\ groups' = groups
                   /\ call'.err # ErrClosed => call'.result = Bool(TRUE)
             /\ call'.err \notin {"none", ErrBusyGroup} => groups' = groups
             /\ \A h \in GroupNames \ {g} :
                   groups'["orders"][h] = groups["orders"][h]
             /\ stream' = stream]_vars

\* setupStreamGroup was called again for a group that has delivered an entry
\* which is still pending: true
C16_Witness ==
    /\ call.op = "setupStreamGroup"
    /\ call.group = "workers"
    /\ call.err = ErrBusyGroup
    /\ call.result = Bool(TRUE)
    /\ groups["orders"]["workers"].last = 1
    /\ groups["orders"]["workers"].pending = {1}

\* the place in the stream of the entry whose id has this text, 0 if none
PlaceOf(st, text) ==
    IF \E i \in 1..Len(st.entries) : IdText(st.entries[i].id) = text
    THEN CHOOSE i \in 1..Len(st.entries) : IdText(st.entries[i].id) = text
    ELSE 0

\* C17: the entries of the stream are in the order of their ids, and a
\* publish that succeeds adds its entry at the end with an id greater than
\* every id before; a readFromStreamGroup result lists entries in the order
\* of the stream, and all of them come after every entry a call of the same
\* group returned before.
C17_StreamOrder ==
    /\ [](\A i, j \in 1..Len(stream["orders"].entries) :
             i < j => stream["orders"].entries[i].id
                         < stream["orders"].entries[j].id)
    /\ [][/\ (CallEnds("publishToStream") /\ call'.result.t = "string") =>
                 LET before == stream["orders"].entries
                     after == stream'["orders"].entries
                 IN /\ Len(after) = Len(before) + 1
                    /\ SubSeq(after, 1, Len(before)) = before
                    /\ IdText(after[Len(after)].id) = call'.result.v
                    /\ \A i \in 1..Len(before) :
                          before[i].id < after[Len(after)].id
          /\ (ReadEnds /\ call'.result.t = "array") =>
                 LET list == call'.result.v
                     st == stream["orders"]
                 IN /\ \A i \in 1..Len(list) :
                          PlaceOf(st, Get(list[i], "id").v) > 0
                    /\ \A i, j \in 1..Len(list) :
                          i < j => PlaceOf(st, Get(list[i], "id").v)
                                      < PlaceOf(st, Get(list[j], "id").v)
                    /\ \A i \in 1..Len(list) :
                          \A old \in handed[reading.group] :
                             PlaceOf(st, old)
                                < PlaceOf(st, Get(list[i], "id").v)]_vars

\* a call for two entries returned both entries of the stream, the first
\* published first
C17_Witness ==
    /\ call.op = "readFromStreamGroup"
    /\ call.result.t = "array"
    /\ Len(call.result.v) = 2
    /\ Get(call.result.v[1], "id") = Str(IdText(1))
    /\ Get(call.result.v[2], "id") = Str(IdText(2))
    /\ Get(call.result.v[1], "payload") # Get(call.result.v[2], "payload")

\* the step of an ackStreamMessage call
AckStep ==
    /\ call'.op = "ackStreamMessage"
    /\ call' # call \/ groups' # groups

\* C18: an ackStreamMessage call that Redis accepts takes out of the
\* pending list of its group the ids given that are in it, and nothing
\* else, and returns how many it took out; it leaves the delivery position,
\* the other group and the stream as they are; an id leaves a pending list
\* in no other step, and the ids a readFromStreamGroup call returns are
\* pending when it ends.
C18_AckRemovesPendingOnly ==
    [][/\ (AckStep /\ ~NotReady(client)) =>
             LET g == call'.group
                 grp == groups["orders"][g]
                 gone == { n \in grp.pending :
                             IdText(n) \in IdArgs(call'.arg) }
             IN /\ call'.err = "none" =>
                      /\ groups'["orders"][g].pending = grp.pending \ gone
                      /\ call'.result = Num(Cardinality(gone))
                /\ call'.err # "none" =>
                      /\ groups' = groups
                      /\ call'.result = Null
                /\ groups'["orders"][g].last = grp.last
                /\ groups'["orders"][g].exists = grp.exists
                /\ \A h \in GroupNames \ {g} :
                      groups'["orders"][h] = groups["orders"][h]
                /\ stream' = stream
       /\ \A g \in GroupNames :
             \A n \in groups["orders"][g].pending :
                n \notin groups'["orders"][g].pending =>
                   /\ AckStep
                   /\ call'.group = g
                   /\ IdText(n) \in IdArgs(call'.arg)
       /\ ReadEnds =>
             IdsIn(call'.result) \subseteq
                { IdText(n) : n \in groups'["orders"][reading.group].pending }
      ]_vars

\* the first entry was acknowledged before and is acknowledged again: 0;
\* the second entry, delivered and not acknowledged, is pending and both
\* entries are in the stream
C18_Witness ==
    /\ call.op = "ackStreamMessage"
    /\ call.group = "workers"
    /\ call.arg = Str(IdText(1))
    /\ call.result = Num(0)
    /\ handed["workers"] = {IdText(1), IdText(2)}
    /\ groups["orders"]["workers"].pending = {2}
    /\ Len(stream["orders"].entries) = 2


\* the value under key k of a settings document, when there is one
Inner(o, k) == IF o.t = "object" /\ k \in DOMAIN o.v THEN o.v[k] ELSE Undefined

\* a company the projector accepts: it has an identifier and settings
Projectable(company) ==
    /\ company.t = "object"
    /\ {"_id", "system_settings"} \subseteq DOMAIN company.v
    /\ company.v._id # Str("")

\* the tenant identifier of a company, as text
TenantText(company) == company.v._id.v

\* the platforms with the prefix of their index and the token the settings
\* of the company hold for them
PlatformTokens(company) ==
    LET meta == Inner(company.v.system_settings, "meta_integrations")
    IN { [prefix |-> "wapPhoneNumberId",
          token |-> Inner(Inner(meta, "whatsapp"), "phoneNumberId")],
         [prefix |-> "msnPageId",
          token |-> Inner(Inner(meta, "messenger"), "pageId")],
         [prefix |-> "igmBusinessAccountId",
          token |-> Inner(Inner(meta, "instagram"),
                          "instagramBusinessAccountId")] }

\* the platforms whose token is there: a text that is not empty, or a number
Resolved(company) ==
    { pt \in PlatformTokens(company) :
        \/ pt.token.t = "string" /\ pt.token.v # ""
        \/ pt.token.t = "number" /\ pt.token.v # 0 }

IndexKey(pt) ==
    pt.prefix \o ":" \o
    (IF pt.token.t = "number" THEN ToString(pt.token.v) ELSE pt.token.v)

AllAccepted(writes) == \A i \in 1..Len(writes) : writes[i].result = Str("OK")

\* C19: a projection of a company never fails on its tokens; next to the
\* write of the settings it writes exactly one index entry for each platform
\* whose token path resolves, under "{prefix}:{token}", and none for a
\* platform with an absent key on the path; the entries the store accepted
\* hold the tenant identifier.
C19_OneIndexEntryPerResolvedPlatform ==
    [][ (/\ proj'.op = "saveCompanySettingInRedis"
         /\ client' = client
         /\ Projectable(proj'.company))
        => /\ proj'.pc = "returned"
           /\ Len(proj'.writes) = 1 + Cardinality(Resolved(proj'.company))
           /\ { proj'.writes[i].key : i \in 2..Len(proj'.writes) }
                 = { IndexKey(pt) : pt \in Resolved(proj'.company) }
           /\ AllAccepted(proj'.writes)
                 => \A pt \in Resolved(proj'.company) :
                       /\ IndexKey(pt) \in DOMAIN store'
                       /\ DecodeStored(store'[IndexKey(pt)])
                             = Str(TenantText(proj'.company)) ]_vars

\* the company with only a WhatsApp token was projected: its index entry is
\* there, and no entry of another platform
C19_Witness ==
    /\ proj.op = "saveCompanySettingInRedis"
    /\ proj.pc = "returned"
    /\ Projectable(proj.company)
    /\ Cardinality(Resolved(proj.company)) = 1
    /\ Len(proj.writes) = 2
    /\ AllAccepted(proj.writes)
    /\ "wapPhoneNumberId:119" \in DOMAIN store
    /\ store["wapPhoneNumberId:119"] = "T1"
    /\ "msnPageId:222" \notin DOMAIN store

KnownPlatforms == {"whatsapp", "messenger", "instagram"}

\* C20: the update of the index of a channel that is no known platform fails
\* with the error of the missing indexer, and writes nothing: the store holds
\* after it what it held before.
C20_UnknownChannelWritesNothing ==
    [][ (/\ proj'.op = "updateCompanyIndexForChannelInRedis"
         /\ Projectable(proj'.company)
         /\ proj'.channel.t = "string"
         /\ proj'.channel.v \notin KnownPlatforms \cup {""})
        => /\ proj'.pc = "threw"
           /\ proj'.error
                 = Str("Configuracion de indexador no encontrada para el canal: "
                       \o proj'.channel.v)
           /\ proj'.writes = <<>>
           /\ store' = store ]_vars

\* the update for "telegram" has failed, on a store that is connected and
\* holds the entries of an earlier projection
C20_Witness ==
    /\ proj.op = "updateCompanyIndexForChannelInRedis"
    /\ proj.channel = Str("telegram")
    /\ Projectable(proj.company)
    /\ proj.pc = "threw"
    /\ ~NotReady(client)
    /\ "company_settings:T1" \in DOMAIN store


\* ------------------------------------------------------ claims C21 .. C30
\* the index writes of a call that the store did not accept
FailedIndexWrites(writes) ==
    { i \in 2..Len(writes) : writes[i].result = Null }

\* C21: in a projection of a company, an index write that fails is logged as
\* an error, the indexers after it are processed all the same (each platform
\* whose token is there gets its write), and the call returns.
C21_IndexFailureDoesNotStopTheRest ==
    [][ (/\ proj'.op = "saveCompanySettingInRedis"
         /\ client' = client
         /\ Projectable(proj'.company)
         /\ FailedIndexWrites(proj'.writes) # {})
        => /\ proj'.pc = "returned"
           /\ \A i \in FailedIndexWrites(proj'.writes) :
                 proj'.writes[i].log = "error"
           /\ \A pt \in Resolved(proj'.company) :
                 \E i \in 2..Len(proj'.writes) :
                    proj'.writes[i].key = IndexKey(pt)
           /\ \A i \in 2..Len(proj'.writes) :
                 (i \notin FailedIndexWrites(proj'.writes) /\ i > 1)
                    => /\ proj'.writes[i].key \in DOMAIN store'
                       /\ DecodeStored(store'[proj'.writes[i].key])
                             = Str(TenantText(proj'.company)) ]_vars

\* the write of the second index failed and the third index was written
C21_Witness ==
    /\ proj.op = "saveCompanySettingInRedis"
    /\ proj.pc = "returned"
    /\ Len(proj.writes) = 4
    /\ proj.writes[3].key = "msnPageId:222"
    /\ proj.writes[3].result = Null
    /\ proj.writes[4].key = "igmBusinessAccountId:333"
    /\ proj.writes[4].result = Str("OK")
    /\ "igmBusinessAccountId:333" \in DOMAIN store
    /\ "msnPageId:222" \notin DOMAIN store


ChannelToken(company, channel) ==
    CHOOSE pt \in PlatformTokens(company) :
       pt.prefix = (CASE channel = "whatsapp" -> "wapPhoneNumberId"
                      [] channel = "messenger" -> "msnPageId"
                      [] OTHER -> "igmBusinessAccountId")

\* C23: the update of the index of a registered platform whose token is there
\* makes exactly one write, that of the index entry, and fails when the store
\* does not accept it.
C23_SingleUpdatePropagatesWriteFailure ==
    [][ (/\ proj'.op = "updateCompanyIndexForChannelInRedis"
         /\ client' = client
         /\ Projectable(proj'.company)
         /\ proj'.channel.t = "string"
         /\ proj'.channel.v \in KnownPlatforms
         /\ ChannelToken(proj'.company, proj'.channel.v)
               \in Resolved(proj'.company))
        => /\ Len(proj'.writes) = 1
           /\ proj'.writes[1].key
                 = IndexKey(ChannelToken(proj'.company, proj'.channel.v))
           /\ (proj'.writes[1].result = Null) => (proj'.pc = "threw") ]_vars


\* the keys a call has written
WrittenKeys(writes) ==
    { writes[i].key : i \in { j \in 1..Len(writes) : writes[j].result # Null } }

\* C24: the projector deletes no key: every key the store holds is held after
\* every call, with the text it had unless the call wrote that very key; so
\* the index entry of an earlier token of a tenant stays, mapped to the
\* tenant, when the tenant is projected again with another token.
C24_ProjectorNeverDeletes ==
    [][ \A k \in DOMAIN store :
           /\ k \in DOMAIN store'
           /\ k \notin WrittenKeys(proj'.writes) => store'[k] = store[k]
      ]_vars

\* the tenant was projected with the token 111 and with the token 119, last
\* with 119: both index entries are there and map to the tenant
C24_Witness ==
    /\ proj.op = "saveCompanySettingInRedis"
    /\ Projectable(proj.company)
    /\ TenantText(proj.company) = "T1"
    /\ "wapPhoneNumberId:119" \in WrittenKeys(proj.writes)
    /\ {"wapPhoneNumberId:111", "wapPhoneNumberId:119"} \subseteq DOMAIN store
    /\ store["wapPhoneNumberId:111"] = "T1"
    /\ store["wapPhoneNumberId:119"] = "T1"


\* what an operation returns to say it failed
FailureIndicator(op) == IF op = "setupStreamGroup" THEN Bool(FALSE) ELSE Null

StoreAndStreamOps ==
    { "setData", "getData", "delData", "setupStreamGroup", "publishToStream",
      "readFromStreamGroup", "ackStreamMessage" }

\* C25: an operation of the store or of the streams called while there is no
\* ready client (before connect() has succeeded, after it failed, after
\* close()) returns its failure indicator at once: the keys, the streams and
\* the groups are as they were and no read is left waiting.
C25_NotReadyFailsFast ==
    [][ (/\ client' = client
         /\ \/ client = Null
            \/ Get(client, "status") = Str("connecting")
         /\ call'.op \in StoreAndStreamOps)
        => /\ store' = store
           /\ stream' = stream
           /\ groups' = groups
           /\ handed' = handed
           /\ reading'.pc = "idle"
           /\ call' # call => call'.result = FailureIndicator(call'.op) ]_vars

\* after close() a key that is there is asked for, and nothing is returned
C25_Witness ==
    /\ client = Null
    /\ call.op = "getData"
    /\ call.result = Null
    /\ "k" \in DOMAIN store
    /\ stream["orders"].lastId > 0


\* the text form of a value: the text itself, the digits of a number, the
\* JSON encoding of an object or a list
TextForm(v) ==
    CASE v.t = "string" -> v.v
      [] v.t = "number" -> ToString(v.v)
      [] OTHER -> JSONStringify(v)

\* C26: on a ready connection getData(key) returns what the last setData(key,
\* v) stored: a structure equal to v when v is an object or a list, the text
\* form of v when v is a scalar, and the stored text as it is when it cannot
\* be decoded.
C26_PutGetRoundTrip ==
    [][ (/\ call'.op = "getData"
         /\ call'.err = "none"
         /\ client' = client
         /\ call'.arg.t = "string"
         /\ call'.arg.v \in DOMAIN store)
        => \A v \in StoreValues :
              (store[call'.arg.v] = TextForm(v))
                 => call'.result = IF v.t \in {"object", "array"}
                                   THEN v
                                   ELSE Str(TextForm(v)) ]_vars


\* the text of a header of the request authClient handled, "" when the
\* request has no such header
Carried(name) == IF name \in DOMAIN auth.req THEN auth.req[name] ELSE ""

Handled == auth.expected # Undefined

TrustHeaderValid == Carried("X-Internal-Request") = auth.expected.v

Answered401 ==
    /\ auth.outcome.pc = "returned"
    /\ auth.outcome.status = 401
    /\ ~auth.outcome.next
    /\ auth.outcome.token = Undefined

\* C27: a request whose internal header is missing or is not the expected
\* token is answered 401, next is not called and req.token is not set,
\* whatever its other headers are.
C27_TrustHeaderFirst ==
    (Handled /\ ~TrustHeaderValid) => Answered401

\* a request marked as webhook, with the headers of a user and a wrong
\* internal header, was answered 401
C27_Witness ==
    /\ Handled
    /\ Carried("X-Internal-Request") = "wrong"
    /\ Carried("X-Source-Type") = "webhook"
    /\ Carried("X-User-Name") = "ana"
    /\ Carried("X-User-Company") # ""
    /\ Answered401

\* the header texts that are not JSON
NotJson == {"{oops", "admin,"}

\* C28: a request that is no webhook, with the expected internal header and
\* a company or roles header that is not JSON, is answered 401: authClient
\* returns, next is not called and req.token is not set.
C28_MalformedIdentityIs401 ==
    (/\ Handled
     /\ TrustHeaderValid
     /\ Carried("X-Source-Type") # "webhook"
     /\ \/ Carried("X-User-Company") \in NotJson
        \/ Carried("X-User-Roles") \in NotJson)
    => /\ Answered401
       /\ auth.outcome.error
             = "Error al parsear el header X-User-Company o X-User-Roles como JSON"

\* the company header was JSON and the roles header was not
C28_Witness ==
    /\ Handled
    /\ TrustHeaderValid
    /\ Carried("X-Source-Type") = ""
    /\ Carried("X-User-Company") \notin NotJson \cup {""}
    /\ Carried("X-User-Roles") \in NotJson
    /\ Answered401

\* C29: a request with the expected internal header that is marked as
\* webhook is passed on: next is called, nothing is answered and req.token is
\* not set, with the headers of a user missing, well formed or not.
C29_WebhookSkipsIdentity ==
    (/\ Handled
     /\ TrustHeaderValid
     /\ Carried("X-Source-Type") = "webhook")
    => /\ auth.outcome.pc = "returned"
       /\ auth.outcome.next
       /\ auth.outcome.status = 0
       /\ auth.outcome.token = Undefined

\* a webhook request with a company header that is not JSON was passed on
C29_Witness ==
    /\ Handled
    /\ TrustHeaderValid
    /\ Carried("X-Source-Type") = "webhook"
    /\ Carried("X-User-Company") \in NotJson
    /\ auth.outcome.next
    /\ auth.outcome.token = Undefined


\* the descriptors of the service lists the registry is loaded from
LoadedDescriptors ==
    UNION { { src.doc.v.services.v[i] :
                i \in 1..Len(src.doc.v.services.v) } :
            src \in { x \in DispatchSources : ~x.threw } }

\* C30: with reloads between and during the dispatches, the base address and
\* the X-Internal-Request header of every request that was sent are the
\* address and the token of one descriptor of one loaded list, the one of
\* the target service in the snapshot the dispatch read.
C30_AddressAndTokenOfOneDescriptor ==
    (disp.pc # "idle" /\ disp.calls = 1)
    => /\ \E d \in LoadedDescriptors :
             /\ Get(d, "serviceName") = Get(disp.req, "serviceName")
             /\ Get(disp.config, "baseURL")
                   = Str("http://" \o TemplateText(Get(d, "host")) \o ":"
                         \o TemplateText(Get(d, "port")))
             /\ Get(Headers(disp.config), HDR_INTERNAL_REQUEST)
                   = Get(d, "token")
       /\ \E i \in 1..Len(disp.allServices.v) :
             /\ Get(disp.allServices.v[i], "serviceName")
                   = Get(disp.req, "serviceName")
             /\ Get(disp.config, "baseURL")
                   = Get(disp.allServices.v[i], "serviceUrl")
             /\ Get(Headers(disp.config), HDR_INTERNAL_REQUEST)
                   = Get(disp.allServices.v[i], "token")

\* a request is on the wire to the billing service of one load while the
\* snapshot already holds the billing service of the next load
C30_Witness ==
    /\ disp.pc = "sent"
    /\ Get(disp.config, "baseURL") = Str("http://10.0.0.5:8080")
    /\ Get(Headers(disp.config), HDR_INTERNAL_REQUEST) = Str("abc")
    /\ services # Null
    /\ \E i \in 1..Len(services.v) :
          /\ Get(services.v[i], "serviceName") = Str("billing")
          /\ Get(services.v[i], "serviceUrl") = Str("http://10.0.0.9:9090")
          /\ Get(services.v[i], "token") = Str("xyz")

\* the clients created that are live and that the module does not hold
LiveUnreferenced == { i \in DOMAIN unreferenced : TRUE }

\* C31: under any interleaving of connect() calls at most one client is
\* created and live at a time, no created client is left without a reference
\* to it, and a connect() on a ready client creates nothing.
C31_OneClientProcessWide ==
    /\ [](LiveUnreferenced = {})
    /\ [][(ConnectAgain /\ ~NotReady(client))
             => UNCHANGED <<client, unreferenced>>]_vars

\* C32: when a close() completes the reference is empty and the flag reset;
\* a close() issued while another is in progress sends no second quit; and
\* close() never clears the reference to a client it did not itself shut
\* down.
C32_TeardownClearsOnlyItsOwnClient ==
    /\ [][(CloseSettles \/ (CloseCall /\ ~isClosing /\ client = Null))
             => (client' = Null /\ ~isClosing')]_vars
    /\ [][(CloseCall /\ isClosing) => UNCHANGED <<quit, isClosing>>]_vars
    /\ [][(CloseSettles /\ client # Null) => quit = "client"]_vars

\* ---------------------------------------------------- claims C33 .. C36
\* the entry of the stream orders that has the id text, as a set
EntryOf(text) ==
    { e \in { stream["orders"].entries[i] :
                 i \in 1..Len(stream["orders"].entries) } :
         IdText(e.id) = text }

\* C33: every entry a readFromStreamGroup call returns is an entry of the
\* stream that the group had not delivered before the call, to any consumer
\* and acknowledged or not: it is past the delivery position of the group,
\* it is not pending, no call of the group has returned it, and it appears
\* once in the result.
C33_NeverTheSameIdTwice ==
    [][(ReadEnds /\ call'.result.t = "array") =>
          LET grp == groups["orders"][reading.group]
              list == call'.result.v
          IN /\ \A i \in 1..Len(list) :
                   /\ Get(list[i], "id").v \notin handed[reading.group]
                   /\ EntryOf(Get(list[i], "id").v) # {}
                   /\ \A e \in EntryOf(Get(list[i], "id").v) :
                         e.id > grp.last /\ e.id \notin grp.pending
             /\ \A i, j \in 1..Len(list) :
                   i # j => Get(list[i], "id") # Get(list[j], "id")]_vars

\* the first entry was returned by one call and is still pending, not
\* acknowledged; the next call returned the second entry and not the first
C33_Witness ==
    /\ call.op = "readFromStreamGroup"
    /\ call.group = "workers"
    /\ call.arg = Num(1)
    /\ IdsIn(call.result) = {IdText(2)}
    /\ handed["workers"] = {IdText(1), IdText(2)}
    /\ groups["orders"]["workers"].pending = {1, 2}

\* the entries Redis takes for the readFromStreamGroup call under way
Batch ==
    LET new == Undelivered(stream["orders"], groups["orders"][reading.group])
    IN SubSeq(new, 1, IF Len(new) < reading.count THEN Len(new)
                      ELSE reading.count)

\* JSON.parse fails on the text readFromStreamGroup takes as the payload
Undecodable(e) == JSONParse(FieldAfterPayload(e.fields)).threw

\* C34: when an entry of the batch a readFromStreamGroup call reads cannot
\* be decoded, the call returns null and hands over no entry of the batch,
\* the well-formed ones included; all entries of the batch are pending in
\* the group and behind its delivery position; and as every call returns
\* only entries past the position, which never moves back, no later call
\* returns them.
C34_MalformedEntryLosesTheBatch ==
    /\ [][(ReadEnds /\ call'.err = "none"
             /\ \E i \in DOMAIN Batch : Undecodable(Batch[i])) =>
             /\ call'.result = Null
             /\ handed' = handed
             /\ \A i \in DOMAIN Batch :
                   /\ Batch[i].id \in groups'["orders"][reading.group].pending
                   /\ Batch[i].id <= groups'["orders"][reading.group].last]_vars
    /\ [][ReadEnds =>
             \A text \in IdsIn(call'.result) : \A e \in EntryOf(text) :
                 e.id > groups["orders"][reading.group].last]_vars
    /\ [][\A g \in GroupNames :
             groups'["orders"][g].last >= groups["orders"][g].last]_vars

\* a batch of two entries, the first published as "ping" and the second
\* written by another producer as {oops: the call returned null without an
\* error of Redis, nothing was handed over and both entries are pending
C34_Witness ==
    /\ call.op = "readFromStreamGroup"
    /\ call.err = "none"
    /\ call.result = Null
    /\ call.arg = Num(2)
    /\ Len(stream["orders"].entries) = 2
    /\ ~Undecodable(stream["orders"].entries[1])
    /\ Undecodable(stream["orders"].entries[2])
    /\ handed["workers"] = {}
    /\ groups["orders"]["workers"].pending = {1, 2}
    /\ groups["orders"]["workers"].last = 2

\* C35: a group is created at the tail of the stream.  An entry that is in
\* the stream while the group does not exist is never returned by a
\* readFromStreamGroup call of the group; the group starts with nothing
\* pending; and an entry published while the group exists is, right after
\* the publish, among those the group has not delivered.
C35_GroupStartsAtTheTail ==
    /\ \A g \in GroupNames : \A n \in 1..MaxMsgs :
          []((stream["orders"].lastId >= n /\ ~groups["orders"][g].exists)
                => [](IdText(n) \notin handed[g]))
    /\ [][\A g \in GroupNames :
             (~groups["orders"][g].exists /\ groups'["orders"][g].exists) =>
                 /\ groups'["orders"][g].last = stream["orders"].lastId
                 /\ groups'["orders"][g].pending = {}]_vars
    /\ [][stream'["orders"].lastId > stream["orders"].lastId =>
             \A g \in GroupNames :
                groups["orders"][g].exists =>
                   \E i \in DOMAIN Undelivered(stream'["orders"],
                                               groups'["orders"][g]) :
                      Undelivered(stream'["orders"],
                                  groups'["orders"][g])[i].id
                         = stream'["orders"].lastId]_vars

\* the first entry was published before the group was created and the
\* second after: the group was handed the second alone, which has been
\* acknowledged since
C35_Witness ==
    /\ Len(stream["orders"].entries) = 2
    /\ handed["workers"] = {IdText(2)}
    /\ groups["orders"]["workers"].last = 2
    /\ groups["orders"]["workers"].pending = {}
    /\ call.op = "ackStreamMessage"

\* C36: the groups of a stream are independent.  A readFromStreamGroup call
\* that Redis answers returns the first entries its own group has not
\* delivered, whatever the other groups have taken; and a call of
\* readFromStreamGroup or of ackStreamMessage changes the delivery position
\* and the pending list of no group but the one it names, nor what any
\* other group has been handed.
C36_GroupsAreIndependent ==
    /\ [][(ReadEnds /\ call'.err = "none") =>
             IdsIn(call'.result)
                = { IdText(Batch[i].id) : i \in DOMAIN Batch }]_vars
    /\ [][ReadEnds =>
             \A g \in GroupNames \ {reading.group} :
                /\ groups'["orders"][g] = groups["orders"][g]
                /\ handed'[g] = handed[g]]_vars
    /\ [][(call'.op = "ackStreamMessage" /\ groups' # groups) =>
             \A g \in GroupNames \ {call'.group} :
                groups'["orders"][g] = groups["orders"][g]]_vars

\* both groups have been handed both entries: the call of the group audit
\* that ended last returned the two entries that the group workers had taken
\* before and still has pending
C36_Witness ==
    /\ call.op = "readFromStreamGroup"
    /\ call.group = "audit"
    /\ IdsIn(call.result) = {IdText(1), IdText(2)}
    /\ handed["workers"] = {IdText(1), IdText(2)}
    /\ handed["audit"] = {IdText(1), IdText(2)}
    /\ groups["orders"]["workers"].pending = {1, 2}
    /\ groups["orders"]["audit"].pending = {1, 2}

\* ---------------------------------------------------- claims C37 .. C39
\* the value under key of the tokenContext of the request being dispatched
Supplied(key) == Get(Get(disp.req, "tokenContext"), key)

\* the descriptor the request being dispatched was built from
TargetDescriptor ==
    FindService(disp.allServices, Get(disp.req, "serviceName"))

\* C37: when the request internalApiClient built reaches a service that
\* expects the token of the descriptor it was built from, then, for a
\* request that is not a webhook call, authClient calls next exactly when
\* company, username or roles of tokenContext is set, and req.token then
\* holds the company and the username that are set (undefined for one that
\* is not) and the roles, or the empty list when none are set; for a
\* webhook call authClient calls next.
C37_DispatcherAndReceiverAgree ==
    [][((\E token \in {Str("abc"), Str("xyz"), Str("s3cret")} :
            Receive(token))
         /\ auth'.expected = Get(TargetDescriptor, "token")) =>
          IF Get(disp.req, "sourceType") = Str(WEBHOOK_SOURCE_TYPE)
          THEN auth'.outcome.next
          ELSE /\ auth'.outcome.next <=>
                     \E k \in {"company", "username", "roles"} :
                         Truthy(Supplied(k))
               /\ auth'.outcome.next =>
                     auth'.outcome.token =
                        Obj([company |-> IF Truthy(Supplied("company"))
                                         THEN Supplied("company")
                                         ELSE Undefined,
                             username |-> IF Truthy(Supplied("username"))
                                          THEN Supplied("username")
                                          ELSE Undefined,
                             roles |-> IF Truthy(Supplied("roles"))
                                       THEN Supplied("roles")
                                       ELSE Arr(<<>>)])]_vars

\* a request with the company alone was received by the service it was
\* built for: it was passed on with that company, no username and no roles
C37_Witness ==
    /\ disp.pc = "sent"
    /\ Get(disp.req, "tokenContext") = Obj([company |-> IdentityValue("company")])
    /\ auth.req = Wire(disp.config)
    /\ auth.expected = Get(TargetDescriptor, "token")
    /\ auth.outcome.next
    /\ auth.outcome.token =
          Obj([company |-> IdentityValue("company"), username |-> Undefined,
               roles |-> Arr(<<>>)])

\* C38: authClient ends every request in one of two ways: it answers 401
\* and does not call next, or it calls next and answers nothing; it never
\* throws; and req.token is set only when next is called for a request with
\* the expected internal header that is not marked as webhook.
C38_ExactlyOneOutcome ==
    Handled =>
       /\ auth.outcome.pc = "returned"
       /\ \/ auth.outcome.status = 401 /\ ~auth.outcome.next
          \/ auth.outcome.status = 0 /\ auth.outcome.next
       /\ auth.outcome.token # Undefined =>
             /\ auth.outcome.next
             /\ auth.outcome.status = 0
             /\ TrustHeaderValid
             /\ Carried("X-Source-Type") # "webhook"

\* a request with the expected internal header and the name of the user
\* alone was passed on, with req.token set and nothing answered
C38_Witness ==
    /\ Handled
    /\ TrustHeaderValid
    /\ Carried("X-Source-Type") = "api"
    /\ Carried("X-User-Company") = ""
    /\ Carried("X-User-Roles") = ""
    /\ auth.outcome.next
    /\ auth.outcome.status = 0
    /\ auth.outcome.token =
          Obj([company |-> Undefined, username |-> Str("ana"),
               roles |-> Arr(<<>>)])

\* C39: saveCompanySettingInRedis makes its first write under the key
\* "company_settings:{id of the company}" and every later write under the
\* key of an index; and a call of either function for a company that is
\* missing, or has no id or no settings, throws with no write made and the
\* store as it was.
C39_PrimaryFirstValidationBeforeWrites ==
    /\ []((proj.op = "saveCompanySettingInRedis" /\ proj.pc = "returned") =>
             /\ Len(proj.writes) >= 1
             /\ proj.writes[1].key =
                   "company_settings:"
                      \o TemplateText(Get(proj.company, "_id"))
             /\ \A i \in 2..Len(proj.writes) :
                   proj.writes[i].key
                      \in { IndexKey(pt) : pt \in Resolved(proj.company) })
    /\ [][(proj'.op # "none" /\ ~Projectable(proj'.company)) =>
             /\ proj'.pc = "threw"
             /\ proj'.writes = <<>>
             /\ store' = store]_vars

\* the company T1 with a token for every platform was projected: the write
\* of its settings came first and the three index entries after it
C39_Witness ==
    /\ proj.op = "saveCompanySettingInRedis"
    /\ proj.pc = "returned"
    /\ Len(proj.writes) = 4
    /\ proj.writes[1].key = "company_settings:T1"
    /\ proj.writes[1].result = Str("OK")
    /\ proj.writes[2].key = "wapPhoneNumberId:111"
    /\ "company_settings:T1" \in DOMAIN store

====
